---- MODULE Spec2Model ----
(***************************************************************************)
(* Verification model of energy2mqtt: the Modbus hub poller, the Modbus    *)
(* worker and its config-change channel, the MQTT bridge with its          *)
(* callback registry, the OMS worker and the command handler.              *)
(*                                                                         *)
(* The program is modelled as several specifications over one set of       *)
(* variables; each specification moves the variables of one subsystem and  *)
(* leaves the others at their initial values.                              *)
(*   SpecPoll    one hub poller task (metering_modbus/mod.rs 128-391)      *)
(*   SpecWorker  the Modbus worker and the config-change channel           *)
(*               (metering_modbus/mod.rs 34-205, config/mod.rs 288-366)    *)
(*   SpecPipe    OMS worker, bridge and MQTT event loop under an unbounded *)
(*               stream of inbound telegrams (mqtt/mod.rs 184-310,         *)
(*               metering_oms/mod.rs 29-56)                                *)
(*   SpecBridge  the same tasks with the command handler and main's        *)
(*               supervision loop, for a bounded number of inbound         *)
(*               messages of every kind (mqtt/internal_commands.rs 18-86,  *)
(*               main.rs 114-131)                                          *)
(*   SpecOms     worker, bridge, event loop and main for every telegram of *)
(*               the model (metering_oms/mod.rs 29-236, utils.rs)          *)
(*   SpecBridgeFair  SpecBridge with main's supervision pass weakly fair   *)
(*   SpecWorkerTx    SpecWorker with the pollers' Metering records on the  *)
(*               transmission channel                                      *)
(*   SpecWorkerWait  SpecWorker with the configuration edited only while   *)
(*               the worker is parked or in its start-up wait              *)
(*   SpecUpdateConfig    one call of ConfigHolder::update_config and a     *)
(*               get_copy after it (config/mod.rs 327-382)                 *)
(*   SpecApi     concurrent add_modbus_hub and delete_modbus_hub requests  *)
(*               (api/mod.rs 187-237)                                      *)
(*   SpecMappings    one register value through its value mappings         *)
(*               (metering_modbus/mod.rs 344-367)                          *)
(*   SpecParseOms    one call of parse_oms_telegram per telegram of the    *)
(*               model (metering_oms/mod.rs 91-236)                        *)
(*   SpecCrc     one call of verifiy_crc on a frame built block by block   *)
(*               (metering_oms/utils.rs 10-54)                             *)
(*   SpecPayload one call of parse_payload on a DIF/VIF record             *)
(*               (metering_oms/div_vif_parser.rs 76-464)                   *)
(*   SpecIec     one call of parse_iec62056_telegram                       *)
(*               (metering_62056/mod.rs 91-155)                            *)
(*   SpecTelegramOf  one call of parse_oms_telegram per telegram put        *)
(*               together from its parts (metering_oms/mod.rs 91-236)      *)
(*   SpecOctetString one call of SmlParser::parse_octet_string             *)
(*               (metering_sml/parser.rs 209-263)                          *)
(*   SpecSmlFile one call of SmlParser::parse_sml_file per frame           *)
(*               (metering_sml/parser.rs 59-612)                           *)
(*   SpecSmlMessage  one call of parse_sml_message per sequence of         *)
(*               received bytes (metering_sml/parser.rs 16-47)             *)
(***************************************************************************)
EXTENDS Integers, Sequences, FiniteSets, TLC

(***************************************************************************)
(* Bounds of the model                                                     *)
(***************************************************************************)
\* devices of the modelled hub
MaxDevices == 2
\* ticks of the hub poll loop that are followed
MaxTicks == 3
\* physical registers and templates of the modelled register map
NumRegisters == 2
NumTemplates == 1
\* read_interval values a device may be configured with (seconds)
ReadIntervals == {1, 2, 3, 90, 120}
\* hubs a Modbus configuration may name, and how many it holds at most
Hubs == {"h1", "h2"}
MaxHubs == 2
\* config-change events of arbitrary content that may wait in the channel; a
\* longer backlog is a burst that repeats the last event
MaxVaried == 1
\* sections and operations of the config-change events
Bases == {"modbus", "oms"}
Operations == {"ADD", "DELETE", "CHANGE"}
\* inbound bus messages the bounded specifications let arrive
MaxInbound == 3
\* Metering records the pollers send between two spawn passes
MaxMeterings == 1
\* raw register values and mappings per register of the mapping calls
MaxRaw == 5
MaxMappings == 2
\* longest telegram body (bytes without CRCs) given to verifiy_crc
MaxBodyLen == 43
\* largest value of a DIF/VIF record given to parse_payload
MaxTimeValue == 2
\* data lines of an IEC 62056-21 telegram
MaxDataLines == 2
\* blocks of a telegram given to parse_oms_telegram whose CRC may be damaged
MaxDamagedBlock == 3
\* bytes that follow the TL byte given to parse_octet_string
MaxOctets == 5
\* messages of an SML frame
MaxMessages == 3
\* HTTP requests that are handled at the same time
MaxRequests == 2
\* length of the arbitrary byte sequences given to parse_sml_message
MaxSmlBytes == 8

(***************************************************************************)
(* Program constants                                                       *)
(***************************************************************************)
\* let mut hub_inveral_sec: u32 = 60;
HUB_INTERVAL_MAX == 60
\* const MAX_RETRIES: u32 = 3;
MAX_RETRIES == 3
\* tokio::sync::broadcast::channel(100), the config-change channel
CONFIG_CHANGE_CAPACITY == 100
\* tokio::sync::mpsc::channel(100), the transmission channel
TRANSMISSION_CAPACITY == 100
\* AsyncClient::new(mqttoptions, 10), the client's request queue
REQUEST_CAPACITY == 10
\* tokio::sync::mpsc::channel(10), a subscriber's delivery channel
DELIVERY_CAPACITY == 10

VARIABLES
    \* ---- hub poller task ------------------------------------------------
    intervals,        \* device.config.read_interval, per device of the hub
    hub_inveral_sec,  \* the hub tick
    waits_till_read,  \* per device
    cur_waits,        \* per device
    ppc,              \* position of the poller task
    dev,              \* device the tick's pass is at
    retries,          \* read_device_with_retry: retries
    attemptLog,       \* results of the read_device_registers calls of this retry call
    retryResult,      \* result of the last read_device_with_retry call
    reg,              \* register the attempt is at
    meter_data,       \* keys of meter_data.metered_values of the running attempt
    failed,           \* register requests that failed in the running attempt
    sent,             \* Metering records this attempt put on hub_sender
    ticks,            \* ticks elapsed
    reads,            \* reads initiated, per device
    hub_proto,        \* hub.config.proto of the hub this poller serves
    \* ---- Modbus worker and config-change channel -------------------------
    config,           \* CONFIG.config.modbus.hubs (the hub names, in order)
    queue,            \* events the worker's broadcast receiver has not read yet
    lagged,           \* the receiver missed events that were overwritten
    wpc,              \* position of the Modbus worker task
    wconfig,          \* self.config.hubs, the worker's snapshot
    threads,          \* self.threads: the hubs of the poller handles held
    alive,            \* poller tasks spawned and not aborted, per hub
    restarted,        \* the worker has aborted its pollers on a config change
    wtx,              \* messages put on the transmission channel since the last spawn pass
    \* ---- MQTT bridge, event loop, OMS worker, command handler, main -------
    tx,               \* the transmission channel (Sender<Transmission>)
    req,              \* the MQTT client's request queue
    dch,              \* the delivery channel of each subscriber
    calls,            \* CALLBACKS.calls: topic -> channels, in registration order
    lock,             \* holder of the CALLBACKS lock
    subscribed,       \* topics whose SUBSCRIBE went out to the broker
    bpc,              \* position of the bridge task
    bmsg,             \* the Transmission the bridge is handling
    epc,              \* position of the event-loop task
    emsg,             \* the inbound publish the event loop is handling
    eidx,             \* Callbacks::send: index of the next channel
    edelivered,       \* channels the inbound publish was put on, in order
    opc,              \* position of the OMS worker task
    omsg,             \* the Metering record the OMS worker is sending
    cpc,              \* position of the command handler task
    mpc,              \* position of main
    aborted,          \* top-level tasks main has aborted
    inputs,           \* <<topic, payload>> pairs the broker may send
    budget,           \* inbound messages still to arrive (-1: no limit)
    lastPub,          \* per producer: the last publish the bridge issued
    \* ---- one call of a parsing or formatting function -------------------
    fcall,            \* the function called and its arguments
    fret              \* what the call returned (NoReturn: not yet)

pollVars == <<intervals, hub_inveral_sec, waits_till_read, cur_waits, ppc, dev,
              retries, attemptLog, retryResult, reg, meter_data, failed, sent,
              ticks, reads, hub_proto>>

workerVars == <<config, queue, lagged, wpc, wconfig, threads, alive, restarted, wtx>>

pipeVars == <<tx, req, dch, calls, lock, subscribed, bpc, bmsg, epc, emsg, eidx,
              edelivered, opc, omsg, cpc, mpc, aborted, inputs, budget, lastPub>>

fnVars == <<fcall, fret>>

\* a call that has not returned
NoReturn == [kind |-> "none"]

vars == <<pollVars, workerVars, pipeVars, fnVars>>

(***************************************************************************)
(* Helpers                                                                 *)
(***************************************************************************)
Min(a, b) == IF a < b THEN a ELSE b

CeilDiv(a, b) == (a + b - 1) \div b

(***************************************************************************)
(* The register map of a device: parse_registers pushes the physical       *)
(* registers first and the templates after them.                           *)
(***************************************************************************)
DeviceRegisters ==
    [i \in 1..(NumRegisters + NumTemplates) |->
        IF i <= NumRegisters THEN [kind |-> "Modbus", name |-> i]
                             ELSE [kind |-> "Template", name |-> i]]

RegisterNames == {DeviceRegisters[i].name : i \in DOMAIN DeviceRegisters}

TemplateNames ==
    {DeviceRegisters[i].name : i \in {j \in DOMAIN DeviceRegisters :
                                        DeviceRegisters[j].kind = "Template"}}

(***************************************************************************)
(* Hub set-up (ModbusManger::start_thread, lines 128-145)                  *)
(***************************************************************************)
\* for device in hub.devices.iter() { hub_inveral_sec = min(hub_inveral_sec, read_interval) }
RECURSIVE HubInterval(_, _)
HubInterval(ivs, acc) ==
    IF ivs = <<>> THEN acc
    ELSE HubInterval(Tail(ivs), Min(acc, Head(ivs)))

\* a mutant of WaitsTillRead: the hub's tick divided by the read interval
WaitsTillReadInverted(read_interval, tick) == tick \div read_interval

\* device.waits_till_read = device.config.read_interval / hub_inveral_sec  (u32 division)
WaitsTillRead(read_interval, tick) == read_interval \div tick

\* enum ModbusProtoConfig { TCP, RTU, RTUoverTCP }
ModbusProtoConfig == {"TCP", "RTU", "RTUoverTCP"}

\* let mut proto = ModbusProto::TcpUdp;
\* if hub.config.proto == ModbusProtoConfig::RTUoverTCP { proto = ModbusProto::Rtu; }
ModbusProtoOf(hub_config_proto) ==
    IF hub_config_proto = "RTUoverTCP" THEN "Rtu" ELSE "TcpUdp"

PollSetup ==
    /\ ppc = "setup"
    /\ hub_inveral_sec' = HubInterval(intervals, HUB_INTERVAL_MAX)
    /\ waits_till_read' =
          [d \in DOMAIN intervals |->
              WaitsTillRead(intervals[d], HubInterval(intervals, HUB_INTERVAL_MAX))]
    /\ ppc' = "sleep"
    /\ UNCHANGED <<hub_proto, intervals, cur_waits, dev, retries, attemptLog, retryResult,
                   reg, meter_data, failed, sent, ticks, reads>>

(***************************************************************************)
(* Hub poll loop (lines 158-177)                                           *)
(***************************************************************************)
\* tokio::time::sleep(hub_delay).await, then the pass over the devices begins
PollTick ==
    /\ ppc = "sleep"
    /\ ticks < MaxTicks
    /\ ticks' = ticks + 1
    /\ dev' = 1
    /\ ppc' = IF Len(intervals) = 0 THEN "sleep" ELSE "devices"
    /\ UNCHANGED <<hub_proto, intervals, hub_inveral_sec, waits_till_read, cur_waits, retries,
                   attemptLog, retryResult, reg, meter_data, failed, sent, reads>>

\* where the pass goes after device d
AfterDevice(d) == IF d < Len(intervals) THEN "devices" ELSE "sleep"

\* device.cur_waits += 1; if device.cur_waits == device.waits_till_read { ... }
PollDevice ==
    /\ ppc = "devices"
    /\ IF cur_waits[dev] + 1 = waits_till_read[dev]
       THEN /\ cur_waits' = [cur_waits EXCEPT ![dev] = 0]
            /\ reads' = [reads EXCEPT ![dev] = @ + 1]
            /\ retries' = 0
            /\ attemptLog' = <<>>
            /\ retryResult' = "none"
            /\ ppc' = "connect"
            /\ dev' = dev
       ELSE /\ cur_waits' = [cur_waits EXCEPT ![dev] = @ + 1]
            /\ ppc' = AfterDevice(dev)
            /\ dev' = IF dev < Len(intervals) THEN dev + 1 ELSE dev
            /\ UNCHANGED <<reads, retries, attemptLog, retryResult>>
    /\ UNCHANGED <<hub_proto, intervals, hub_inveral_sec, waits_till_read, reg, meter_data,
                   failed, sent, ticks>>

(***************************************************************************)
(* read_device_with_retry (lines 208-231)                                  *)
(***************************************************************************)
\* a mutant of RetryAllowed: one retry more
RetryAllowedOneMore(r) == r <= MAX_RETRIES

\* Err(e) if retries < MAX_RETRIES => retry
RetryAllowed(r) == r < MAX_RETRIES

\* a mutant of AttemptReturns: Ok(_) is retried like an error
AttemptReturnsRetriesOk(result) ==
    /\ attemptLog' = Append(attemptLog, result)
    /\ IF RetryAllowed(retries)
       THEN /\ retries' = retries + 1
            /\ ppc' = "connect"
            /\ UNCHANGED retryResult
       ELSE /\ retryResult' = result
            /\ ppc' = "returned"
            /\ UNCHANGED retries

\* the match on the result of one read_device_registers call
AttemptReturns(result) ==
    /\ attemptLog' = Append(attemptLog, result)
    /\ IF result = "Ok"
       THEN /\ retryResult' = "Ok"
            /\ ppc' = "returned"
            /\ UNCHANGED retries
       ELSE IF RetryAllowed(retries)
       THEN /\ retries' = retries + 1
            /\ ppc' = "connect"
            /\ UNCHANGED retryResult
       ELSE /\ retryResult' = "Err"
            /\ ppc' = "returned"
            /\ UNCHANGED retries

(***************************************************************************)
(* read_device_registers (lines 233-391)                                   *)
(***************************************************************************)
\* TcpStream::connect(socket_addr).await.map_err(..)?
ConnectFails ==
    /\ ppc = "connect"
    /\ meter_data' = {}
    /\ failed' = {}
    /\ sent' = <<>>
    /\ reg' = 1
    /\ AttemptReturns("Err")
    /\ UNCHANGED <<hub_proto, intervals, hub_inveral_sec, waits_till_read, cur_waits, dev,
                   ticks, reads>>

ConnectOk ==
    /\ ppc = "connect"
    /\ meter_data' = {}
    /\ failed' = {}
    /\ sent' = <<>>
    /\ reg' = 1
    /\ ppc' = "registers"
    /\ UNCHANGED <<hub_proto, intervals, hub_inveral_sec, waits_till_read, cur_waits, dev,
                   retries, attemptLog, retryResult, ticks, reads>>

\* what one register's request can end in
\*   write_err  stream.write_all fails                       (line 279)
\*   read_err   stream.read fails, header or body          (lines 284, 299)
\*   closed     stream.read returns 0 bytes                (lines 287, 302)
\*   len_err    guess_response_frame_len fails              (line 294)
\*   parse_err  mreq.parse_u16 fails: ok = false       (lines 318, 332)
IoFailures == {"write_err", "read_err", "closed", "len_err"}
RegisterOutcomes == {"ok", "parse_err"} \cup IoFailures

\* a mutant of RegisterOk: the value is inserted whatever parse_u16 returned
RegisterOkAlways(outcome) == TRUE

\* if ok { ... meter_data.metered_values.insert(reg.name.clone(), value); }
RegisterOk(outcome) == outcome = "ok"

\* the body of  for reg in &device.registers  for a physical register
RegisterRead(outcome) ==
    /\ ppc = "registers"
    /\ reg <= Len(DeviceRegisters)
    /\ DeviceRegisters[reg].kind = "Modbus"
    /\ IF outcome \in IoFailures
       THEN /\ failed' = failed \cup {[name |-> DeviceRegisters[reg].name, at |-> outcome]}
            /\ AttemptReturns("Err")
            /\ UNCHANGED <<meter_data, reg>>
       ELSE /\ meter_data' = IF RegisterOk(outcome)
                                THEN meter_data \cup {DeviceRegisters[reg].name}
                                ELSE meter_data
            /\ failed' = IF outcome = "ok" THEN failed
                         ELSE failed \cup {[name |-> DeviceRegisters[reg].name, at |-> outcome]}
            /\ reg' = reg + 1
            /\ UNCHANGED <<ppc, retries, attemptLog, retryResult>>
    /\ UNCHANGED <<hub_proto, intervals, hub_inveral_sec, waits_till_read, cur_waits, dev,
                   sent, ticks, reads>>

RegisterStep == \E outcome \in RegisterOutcomes : RegisterRead(outcome)

\* Register::Template(_) => continue
RegisterSkipTemplate ==
    /\ ppc = "registers"
    /\ reg <= Len(DeviceRegisters)
    /\ DeviceRegisters[reg].kind = "Template"
    /\ reg' = reg + 1
    /\ UNCHANGED <<hub_proto, intervals, hub_inveral_sec, waits_till_read, cur_waits, ppc, dev,
                   retries, attemptLog, retryResult, meter_data, failed, sent,
                   ticks, reads>>

\* the template loop, hub_sender.send(Transmission::Metering(meter_data)), Ok(())
FinishAttempt ==
    /\ ppc = "registers"
    /\ reg > Len(DeviceRegisters)
    /\ meter_data' = meter_data \cup TemplateNames
    /\ sent' = Append(sent, [device |-> dev, values |-> meter_data \cup TemplateNames])
    /\ AttemptReturns("Ok")
    /\ UNCHANGED <<hub_proto, intervals, hub_inveral_sec, waits_till_read, cur_waits, dev, reg,
                   failed, ticks, reads>>

\* back in the poll loop: the error is logged and the pass goes to the next device
PollReturned ==
    /\ ppc = "returned"
    /\ ppc' = AfterDevice(dev)
    /\ dev' = IF dev < Len(intervals) THEN dev + 1 ELSE dev
    /\ UNCHANGED <<hub_proto, intervals, hub_inveral_sec, waits_till_read, cur_waits, retries,
                   attemptLog, retryResult, reg, meter_data, failed, sent, ticks, reads>>

InitPollVars ==
    /\ intervals \in UNION {[1..n -> ReadIntervals] : n \in 1..MaxDevices}
    /\ hub_inveral_sec = HUB_INTERVAL_MAX
    /\ waits_till_read = [d \in DOMAIN intervals |-> 1]
    /\ cur_waits = [d \in DOMAIN intervals |-> 0]
    /\ ppc = "setup"
    /\ dev = 1
    /\ retries = 0
    /\ attemptLog = <<>>
    /\ retryResult = "none"
    /\ reg = 1
    /\ meter_data = {}
    /\ failed = {}
    /\ sent = <<>>
    /\ ticks = 0
    /\ reads = [d \in DOMAIN intervals |-> 0]
    /\ hub_proto \in ModbusProtoConfig

(***************************************************************************)
(* The config-change channel (config/mod.rs 288, 319-321, 365) as the      *)
(* Modbus worker's receiver sees it: tokio's broadcast channel keeps the   *)
(* last CONFIG_CHANGE_CAPACITY events; a send into a full channel          *)
(* overwrites the oldest one, and a receiver that had not read it gets     *)
(* Err(Lagged) from its next recv and the oldest retained event after.     *)
(***************************************************************************)
ConfigChanges == [operation : Operations, base : Bases]

\* sequences of distinct hub names
HubConfigs ==
    {s \in UNION {[1..n -> Hubs] : n \in 0..MaxHubs} :
        \A i, j \in DOMAIN s : i # j => s[i] # s[j]}

\* devices configured on a hub
DevicesOfHub(h) == IF h = "h1" THEN 1 ELSE 2

\* self.callbacks.sender.send(ConfigChange { operation, base })
BroadcastSend(change) ==
    IF Len(queue) < CONFIG_CHANGE_CAPACITY
    THEN /\ queue' = Append(queue, change)
         /\ UNCHANGED lagged
    ELSE /\ queue' = Append(Tail(queue), change)
         /\ lagged' = TRUE

\* ConfigHolder::update_config(operation, new_data): the section is replaced
\* and one event is broadcast
UpdateConfig ==
    \E change \in ConfigChanges, hubs \in HubConfigs :
        /\ IF Len(queue) < MaxVaried THEN TRUE ELSE change = queue[Len(queue)]
        /\ config' = IF change.base = "modbus" THEN hubs ELSE config
        /\ BroadcastSend(change)
        /\ UNCHANGED <<wpc, wconfig, threads, alive, restarted, wtx>>

(***************************************************************************)
(* ModbusManger::start_thread (metering_modbus/mod.rs 45-205)              *)
(***************************************************************************)
\* if self.config.hubs.len() == 0 { park } ... sleep 5 s
WorkerStart ==
    /\ wpc = "start"
    /\ wpc' = IF Len(wconfig) = 0 THEN "parked" ELSE "startup_wait"
    /\ UNCHANGED <<config, queue, lagged, wconfig, threads, alive, restarted, wtx>>

\* a mutant of WakesParked: any event of base modbus wakes the parked worker
WakesParkedAnyOperation(change) == change.base = "modbus"

\* if change.operation != ConfigOperation::ADD || change.base != "modbus" { continue; }
WakesParked(change) == ~(change.operation # "ADD" \/ change.base # "modbus")

\* let change = self.config_change.recv().await.unwrap();  in the parked loop
WorkerParkedRecv ==
    /\ wpc = "parked"
    /\ IF lagged
       THEN /\ lagged' = FALSE
            /\ wpc' = "panicked"
            /\ UNCHANGED queue
       ELSE /\ queue # <<>>
            /\ queue' = Tail(queue)
            /\ wpc' = IF WakesParked(Head(queue)) THEN "startup_wait" ELSE "parked"
            /\ UNCHANGED lagged
    /\ UNCHANGED <<config, wconfig, threads, alive, restarted, wtx>>

\* tokio::time::sleep(Duration::from_secs(5)).await
WorkerStartupWait ==
    /\ wpc = "startup_wait"
    /\ wpc' = "spawn"
    /\ UNCHANGED <<config, queue, lagged, wconfig, threads, alive, restarted, wtx>>

\* a mutant of DiscoveryComponents: templates get no component
DiscoveryComponentsNoTemplates(regs) ==
    {regs[i].name : i \in {j \in DOMAIN regs : regs[j].kind = "Modbus"}}

\* for reg in r { ...; discover.cmps.insert(name.clone(), ..) }: the keys of
\* cmps, one per physical register and per template
DiscoveryComponents(regs) == {regs[i].name : i \in DOMAIN regs}

\* the AutoDiscovery messages of one hub's devices
RECURSIVE Discoveries(_, _)
Discoveries(h, n) ==
    IF n = 0 THEN <<>>
    ELSE Append(Discoveries(h, n - 1),
                [type |-> "AutoDiscovery", hub |-> h, device |-> n,
                 cmps |-> DiscoveryComponents(DeviceRegisters)])

\* the messages of the pass over the hubs, in order
RECURSIVE SpawnMessages(_)
SpawnMessages(hubs) ==
    IF hubs = <<>> THEN <<>>
    ELSE Discoveries(Head(hubs), DevicesOfHub(Head(hubs))) \o SpawnMessages(Tail(hubs))

RECURSIVE DeviceCount(_)
DeviceCount(hubs) ==
    IF hubs = <<>> THEN 0 ELSE DevicesOfHub(Head(hubs)) + DeviceCount(Tail(hubs))

\* pollers per hub after one more is spawned for every hub of the snapshot
SpawnedPollers(hubs) ==
    [h \in Hubs |-> alive[h] + Cardinality({i \in DOMAIN hubs : hubs[i] = h})]

\* a mutant of SpawnedHandles: the first hub of the snapshot gets no poller
SpawnedHandlesSkipFirst(held, hubs) ==
    held \o (IF hubs = <<>> THEN <<>> ELSE Tail(hubs))

\* self.threads.push(join) for every hub of the snapshot
SpawnedHandles(held, hubs) == held \o hubs

\* the body of the outer loop up to the wait for changes (lines 66-188): the
\* configuration is read again, one poller is spawned per hub, the device
\* count is published
WorkerSpawn ==
    /\ wpc = "spawn"
    /\ wconfig' = config
    /\ threads' = SpawnedHandles(threads, config)
    /\ alive' = SpawnedPollers(config)
    /\ wtx' = Append(SpawnMessages(config),
                     [type |-> "Publish", topic |-> "energy2mqtt/mgt/modbus/count",
                      payload |-> DeviceCount(config)])
    /\ wpc' = "steady"
    /\ UNCHANGED <<config, queue, lagged, restarted>>

\* a mutant of AbortedPollers: the poller of the first handle is not aborted
AbortedPollersButFirst(held) ==
    [h \in Hubs |-> alive[h] - Cardinality({i \in DOMAIN held : i > 1 /\ held[i] = h})]

\* pollers left after thread.abort() on every handle held
AbortedPollers(held) ==
    [h \in Hubs |-> alive[h] - Cardinality({i \in DOMAIN held : held[i] = h})]

\* a mutant of RestartsWorker: only an ADD of base modbus restarts the pollers
RestartsWorkerOnAddOnly(change) == change.base = "modbus" /\ change.operation = "ADD"

\* if change.base == "modbus" { break; }
RestartsWorker(change) == change.base = "modbus"

\* let change = self.config_change.recv().await.unwrap();  in the steady loop,
\* and after the break: abort every thread, self.threads.clear()
WorkerSteadyRecv ==
    /\ wpc = "steady"
    /\ IF lagged
       THEN /\ lagged' = FALSE
            /\ wpc' = "panicked"
            /\ UNCHANGED <<queue, threads, alive, restarted>>
       ELSE /\ queue # <<>>
            /\ queue' = Tail(queue)
            /\ IF RestartsWorker(Head(queue))
               THEN /\ alive' = AbortedPollers(threads)
                    /\ threads' = <<>>
                    /\ restarted' = TRUE
                    /\ wpc' = "spawn"
               ELSE UNCHANGED <<wpc, threads, alive, restarted>>
            /\ UNCHANGED lagged
    /\ UNCHANGED <<config, wconfig, wtx>>

\* Metering records of the pollers on the transmission channel
Meterings(channel) == {k \in DOMAIN channel : channel[k].type = "Metering"}

\* a poller of hub h ends a read of its device d:
\* hub_sender.send(Transmission::Metering(meter_data)) (line 389)
PollerSends(h, d) ==
    /\ alive[h] > 0
    /\ d \in 1..DevicesOfHub(h)
    /\ Cardinality(Meterings(wtx)) < MaxMeterings
    /\ wtx' = Append(wtx, [type |-> "Metering", hub |-> h, device |-> d])
    /\ UNCHANGED <<config, queue, lagged, wpc, wconfig, threads, alive, restarted>>

PollerStep == \E h \in Hubs, d \in 1..MaxDevices : PollerSends(h, d)

\* ModbusManger::new: the snapshot is the configuration at construction and
\* the receiver is subscribed
InitWorkerVars ==
    /\ config \in HubConfigs
    /\ queue = <<>>
    /\ lagged = FALSE
    /\ wpc = "start"
    /\ wconfig = config
    /\ threads = <<>>
    /\ alive = [h \in Hubs |-> 0]
    /\ restarted = FALSE
    /\ wtx = <<>>

(***************************************************************************)
(* OMS telegram parsing (metering_oms/utils.rs, metering_oms/mod.rs        *)
(* 91-236, metering_oms/div_vif_parser.rs).  Telegrams are sequences of    *)
(* bytes; At reads them with the source's 0-based indices.  A result is    *)
(* Ok with the record's fields, Err with the OmsParseError, or Panic when  *)
(* the call unwinds.                                                       *)
(***************************************************************************)
At(bytes, i) == bytes[i + 1]

\* the bytes [from, to) of a vector, empty when to <= from
Slice(bytes, from, to) == [i \in 1..(to - from) |-> bytes[from + i]]

\* The element of a set of one element.  A value that is looked at several
\* times is bound as the element of a set, so that it is evaluated once, as
\* a `let` of the source is.
The(S) == CHOOSE x \in S : TRUE

\* bit k (a power of two) of a XOR b
XorBit(a, b, k) == (((a \div k) + (b \div k)) % 2) * k

\* a XOR b for numbers of the given width, up to 16 bits
Xor(a, b, bits) ==
    LET Bit(k) == IF k < 2 ^ bits THEN XorBit(a, b, k) ELSE 0
    IN  ((Bit(1) + Bit(2)) + (Bit(4) + Bit(8))
            + ((Bit(16) + Bit(32)) + (Bit(64) + Bit(128))))
        + ((Bit(256) + Bit(512)) + (Bit(1024) + Bit(2048))
            + ((Bit(4096) + Bit(8192)) + (Bit(16384) + Bit(32768))))

\* crc16::EN_13757: polynomial 0x3D65, initial value 0, no reflection,
\* final XOR 0xFFFF
CRC_POLY == 15717

\* the register shifted by one bit
CrcShiftOne(crc) ==
    IF crc >= 32768 THEN Xor((crc * 2) % 65536, CRC_POLY, 16) ELSE crc * 2

\* the register shifted by n bits: the first half of the shifts, then the
\* rest of them
RECURSIVE CrcShift(_, _)
CrcShift(crc, n) ==
    IF n = 0 THEN crc
    ELSE IF n = 1 THEN The({ CrcShiftOne(c) : c \in {crc} })
    ELSE The({ CrcShift(half, n - (n \div 2)) :
               half \in {CrcShift(crc, n \div 2)} })

\* the register after the bytes from..to: the first half of the bytes, then
\* the rest of them
RECURSIVE CrcUpdate(_, _, _, _)
CrcUpdate(crc, bytes, from, to) ==
    IF from > to THEN crc
    ELSE IF from = to
    THEN The({ CrcShift(Xor(c, byte * 256, 16), 8) : c \in {crc}, byte \in {bytes[from]} })
    ELSE The({ CrcUpdate(half, bytes, m + 1, to) :
               m \in {(from + to) \div 2},
               half \in {CrcUpdate(crc, bytes, from, (from + to) \div 2)} })

\* State::<EN_13757>::new(), update on every byte, get()
Crc(bytes) ==
    The({ Xor(register, 65535, 16) :
          register \in {CrcUpdate(0, b, 1, Len(b)) : b \in {bytes}} })

OmsOk(name, payload) == [kind |-> "Ok", error |-> "", meter_name |-> name, payload |-> payload]
OmsErr(e) == [kind |-> "Err", error |-> e, meter_name |-> "", payload |-> <<>>]
OmsPanic == [kind |-> "Panic", error |-> "", meter_name |-> "", payload |-> <<>>]

\* verifiy_crc, one pass of its loop at block offset start.  len is a usize:
\* telegram.len() - start - 2 below zero panics in a build with overflow
\* checks and wraps in one without, where start + len wraps back or indexes
\* far outside the vector.
RECURSIVE verifiy_crc_block(_, _, _, _, _)
verifiy_crc_block(telegram, start, first_block, result, overflow_checks) ==
    LET n == Len(telegram)
        len == IF n < start + 17 THEN n - start - 2
               ELSE IF first_block THEN 10 ELSE 16
        end_of_data_to_crc == start + len
    IN  IF len < 0 /\ overflow_checks THEN OmsPanic
        ELSE IF end_of_data_to_crc < 0 \/ end_of_data_to_crc >= n THEN OmsPanic
        ELSE The({
          IF s \div 256 # At(telegram, end) THEN OmsErr("CRCMissMatch")
          ELSE IF end + 1 >= n THEN OmsPanic
          ELSE IF s % 256 # At(telegram, end + 1) THEN OmsErr("CRCMissMatch")
          ELSE IF n = end + 2 THEN OmsOk("", data)
          ELSE verifiy_crc_block(telegram, end + 2, FALSE, data, overflow_checks) :
          end \in {end_of_data_to_crc},
          data \in {result \o Slice(telegram, start, end_of_data_to_crc)},
          s \in {Crc(Slice(telegram, start, end_of_data_to_crc))} })

verifiy_crc(telegram, overflow_checks) ==
    verifiy_crc_block(telegram, 0, TRUE, <<>>, overflow_checks)

\* get_manufacturer, get_ident_no and the DIN address built from them
get_manufacturer(telegram) ==
    LET m == At(telegram, 3) * 256 + At(telegram, 2)
    IN  <<((m \div 1024) % 32) + 64, ((m \div 32) % 32) + 64, (m % 32) + 64>>

get_ident_no(telegram) ==
    <<At(telegram, 7), At(telegram, 6), At(telegram, 5), At(telegram, 4)>>

DinAddr(telegram) ==
    <<At(telegram, 9), get_manufacturer(telegram), At(telegram, 8), get_ident_no(telegram)>>

\* CONFIG oms: meter A of the source's test telegram, and a meter whose key
\* is not 16 bytes of hex (the key is stored as entered)
MeterKey == <<1, 2, 3, 4, 5, 6, 7, 8, 9, 10, 11, 12, 13, 14, 15, 17>>

Header(l_field, ident) == <<l_field, 68, 147, 21, ident, 86, 52, 18, 51, 3>>

OmsMeters ==
    << [name |-> "3ELS3312345678", id |-> DinAddr(Header(0, 120)), key |-> MeterKey],
       [name |-> "keyless", id |-> DinAddr(Header(0, 121)), key |-> <<>>] >>

\* get_meter_config: the first sensor whose id is the DIN address
get_meter_config(din_addr) ==
    LET hits == {i \in DOMAIN OmsMeters : OmsMeters[i].id = din_addr}
    IN  IF hits = {} THEN <<>>
        ELSE <<OmsMeters[CHOOSE i \in hits : \A j \in hits : i <= j]>>

\* AES-128-CBC is not computed: a keyed bytewise substitution stands for it,
\* with the cipher's interface: a ciphertext that is no whole number of
\* blocks does not decrypt (unwrap_or_default gives the empty vector)
AesCbcDecrypt(key, iv, ciphertext) ==
    IF Len(ciphertext) % 16 # 0 THEN <<>>
    ELSE [i \in 1..Len(ciphertext) |->
            (ciphertext[i] + 512 - key[((i - 1) % 16) + 1] - iv[((i - 1) % 16) + 1]) % 256]

AesCbcEncrypt(key, iv, plaintext) ==
    [i \in 1..Len(plaintext) |->
        (plaintext[i] + key[((i - 1) % 16) + 1] + iv[((i - 1) % 16) + 1]) % 256]

Mode5Iv(telegram, access_no) ==
    Slice(telegram, 2, 10) \o [i \in 1..8 |-> access_no]

\* decrypt_mode5: GenericArray::clone_from_slice panics on a key that is not
\* 16 bytes long
decrypt_mode5(telegram, access_no, start_encryption, key) ==
    IF start_encryption > Len(telegram) \/ Len(key) # 16 THEN OmsPanic
    ELSE OmsOk("", AesCbcDecrypt(key, Mode5Iv(telegram, access_no),
                                 Slice(telegram, start_encryption, Len(telegram))))

RECURSIVE TrailingFillers(_)
TrailingFillers(bytes) ==
    IF bytes = <<>> \/ bytes[Len(bytes)] # 47 THEN 0
    ELSE 1 + TrailingFillers(SubSeq(bytes, 1, Len(bytes) - 1))

remove_oms_filler(original) ==
    LET ret == Slice(original, 2, Len(original))
        element_to_remove == TrailingFillers(ret) + 2
    IN  Slice(ret, 0, Len(original) - element_to_remove)

\* get_dif_function: bytes the handler reads, bytes it skips, check_further
DifReads(dif) ==
    CASE dif = 1 -> 1 [] dif = 2 -> 2 [] dif = 3 -> 3 [] dif = 4 -> 4
      [] dif = 6 -> 6 [] dif = 7 -> 8 [] dif = 12 -> 4 [] OTHER -> 0

DifSkips(dif) == IF dif \in {5, 240} THEN 4 ELSE DifReads(dif)

DifCheckFurther(dif) == dif \notin {0, 8, 47}

\* parse_payload: the walk over the DIF/VIF records; indexing past the end
\* of the payload panics
RECURSIVE parse_payload(_, _)
parse_payload(payload, cur_pos) ==
    IF cur_pos >= Len(payload) THEN "Ok"
    ELSE LET dif == At(payload, cur_pos)
             vif_pos == cur_pos + 1
         IN  IF ~DifCheckFurther(dif) THEN parse_payload(payload, vif_pos)
             ELSE IF vif_pos >= Len(payload) THEN "Panic"
             ELSE LET extension == At(payload, vif_pos) \in {251, 253}
                      data_pos == vif_pos + (IF extension THEN 2 ELSE 1)
                  IN  IF extension /\ vif_pos + 1 >= Len(payload) THEN "Panic"
                      ELSE IF DifReads(dif) > 0 /\ data_pos + DifReads(dif) > Len(payload)
                      THEN "Panic"
                      ELSE parse_payload(payload, data_pos + DifSkips(dif))

\* CI fields of the transport layer (parse_oms_telegram, lines 94-98)
tpl_no_header_ids == {102, 112, 113}
tpl_short_header_ids == {103, 110, 116, 122, 125, 127, 136, 158, 193, 196}
tpl_long_header_ids == {104, 111, 114, 117, 124, 126, 159, 194, 197}

\* parse_oms_telegram from the security mode on (lines 201-235)
ParseApl(telegram, meter, access_no, security_mode) ==
    IF security_mode = 5 THEN
        LET dec == decrypt_mode5(telegram, access_no, 15, meter.key)
            dec_data == dec.payload
        IN  IF dec.kind = "Panic" THEN OmsPanic
            ELSE IF Len(dec_data) < 2 \/ dec_data[1] # 47 \/ dec_data[2] # 47
            THEN OmsErr("DecryptionFailed")
            ELSE IF parse_payload(remove_oms_filler(dec_data), 0) = "Panic" THEN OmsPanic
            ELSE OmsOk(meter.name, remove_oms_filler(dec_data))
    ELSE IF security_mode = 7 THEN
        IF parse_payload(<<>>, 0) = "Panic" THEN OmsPanic ELSE OmsOk("", <<>>)
    ELSE OmsErr("SecurityModeNotSupported")

\* parse_oms_telegram, the transport layer header (lines 165-198)
ParseTpl(telegram, meter) ==
    IF Len(telegram) <= 10 THEN OmsPanic
    ELSE LET ci == At(telegram, 10)
         IN  IF ci \in tpl_short_header_ids THEN
                 IF Len(telegram) < 15 THEN OmsPanic
                 ELSE ParseApl(telegram, meter, At(telegram, 11), At(telegram, 14) % 32)
             ELSE IF ci \in tpl_long_header_ids THEN OmsPanic
             ELSE IF ci \in tpl_no_header_ids THEN OmsErr("WiredProtocolNotSupported")
             ELSE OmsErr("SecurityCiTypeNotSupported")

\* parse_oms_telegram, the data link layer (lines 108-161)
ParseDll(telegram) ==
    IF Len(telegram) < 10 THEN OmsErr("TelegramTooShort")
    ELSE IF Len(telegram) > 255 THEN OmsErr("TelegramTooLong")
    ELSE IF At(telegram, 0) > Len(telegram) THEN OmsErr("TelegramTooShort")
    ELSE IF At(telegram, 1) # 68 THEN OmsErr("UnsupportedTelegramType")
    ELSE LET meter == get_meter_config(DinAddr(telegram))
         IN  IF meter = <<>> THEN OmsErr("SensorNotConfigured")
             ELSE ParseTpl(telegram, meter[1])

parse_oms_telegram(telegram, with_crc, overflow_checks) ==
    The({ IF checked.kind # "Ok" THEN checked ELSE ParseDll(checked.payload) :
          checked \in {IF with_crc THEN verifiy_crc(received, overflow_checks)
                       ELSE OmsOk("", received) : received \in {telegram}} })

(***************************************************************************)
(* The telegrams the model receives, built as a meter builds them: the     *)
(* frame of the source's test (mod.rs 245-351) and frames that differ from *)
(* it in one respect.                                                      *)
(***************************************************************************)
RECURSIVE AddCrc(_, _)
AddCrc(body, first_block) ==
    IF body = <<>> THEN <<>>
    ELSE The({ b.block \o <<b.crc \div 256, b.crc % 256>>
                   \o AddCrc(SubSeq(body, Len(b.block) + 1, Len(body)), FALSE) :
               b \in {[block |-> block, crc |-> Crc(block)] :
                      block \in {SubSeq(body, 1, Min(Len(body),
                                                     IF first_block THEN 10 ELSE 16))}} })

\* CI 0x7A, access number 0x2A, status 0, configuration field
ShortTpl(config_high) == <<122, 42, 0, 32, config_high>>

\* 2F 2F, a 12 digit BCD volume, a 32 bit time point, 2F 2F
PlainRecords == <<47, 47, 12, 20, 39, 4, 133, 2, 4, 109, 50, 55, 31, 21, 47, 47>>
\* 2F 2F, a 16 bit volume, idle DIFs, and a 32 bit DIF with no value bytes
PlainCutRecord == <<47, 47, 2, 19, 17, 34, 0, 0, 0, 0, 0, 0, 0, 0, 4, 19>>

OtherKey == <<9, 9, 9, 9, 9, 9, 9, 9, 9, 9, 9, 9, 9, 9, 9, 9>>

Frame(ident, tpl, rest) ==
    AddCrc(Header(9 + Len(tpl) + Len(rest), ident) \o tpl \o rest, TRUE)

Cipher(ident, key, plaintext) ==
    AesCbcEncrypt(key, Mode5Iv(Header(0, ident), 42), plaintext)

ValidTelegram == Frame(120, ShortTpl(37), Cipher(120, MeterKey, PlainRecords))

OmsTelegrams ==
    [ valid            |-> ValidTelegram,
      bad_crc          |-> [ValidTelegram EXCEPT ![Len(ValidTelegram)] = (@ + 1) % 256],
      empty            |-> <<>>,
      one_byte         |-> <<46>>,
      truncated_crc    |-> SubSeq(ValidTelegram, 1, 31),
      too_short        |-> AddCrc(<<4, 68, 147, 21, 120>>, TRUE),
      not_snd_nr       |-> AddCrc([Header(9, 120) EXCEPT ![2] = 8], TRUE),
      not_configured   |-> Frame(122, ShortTpl(37), Cipher(122, MeterKey, PlainRecords)),
      header_only      |-> Frame(120, <<>>, <<>>),
      long_header      |-> Frame(120, <<114>>,
                                 <<120, 86, 52, 18, 147, 21, 51, 3, 42, 0, 32, 37>>),
      short_header_cut |-> Frame(120, <<122, 42, 0>>, <<>>),
      wired            |-> Frame(120, <<112>>, <<0, 0, 0, 0>>),
      unknown_ci       |-> Frame(120, <<0>>, <<0, 0, 0, 0>>),
      mode0            |-> Frame(120, ShortTpl(32), Cipher(120, MeterKey, PlainRecords)),
      mode7            |-> Frame(120, ShortTpl(39), Cipher(120, MeterKey, PlainRecords)),
      odd_cipher       |-> Frame(120, ShortTpl(37),
                                 SubSeq(Cipher(120, MeterKey, PlainRecords), 1, 15)),
      wrong_key        |-> Frame(120, ShortTpl(37), Cipher(120, OtherKey, PlainRecords)),
      cut_record       |-> Frame(120, ShortTpl(37), Cipher(120, MeterKey, PlainCutRecord)),
      keyless_meter    |-> Frame(121, ShortTpl(37), Cipher(121, MeterKey, PlainRecords)) ]

TelegramNames == DOMAIN OmsTelegrams

\* what parse_oms_telegram(&dec, true) returns for each telegram, in a build
\* with and in one without overflow checks
OmsResults ==
    [name \in TelegramNames |->
        {parse_oms_telegram(OmsTelegrams[name], TRUE, oc) : oc \in BOOLEAN}]

(***************************************************************************)
(* The MQTT pipeline: the bridge task (MqttManager::start_thread), the     *)
(* event-loop task spawned by MqttManager::new, the callback registry,     *)
(* the OMS worker, the command handler and main's supervision loop.        *)
(* A subscriber's delivery channel is named after the subscriber.  The     *)
(* broker connection stays up: no ConnAck arrives after the first          *)
(* registration.                                                           *)
(***************************************************************************)
Subscribers == {"oms", "cmd"}
TopLevelTasks == {"bridge", "oms", "cmd"}

\* the topic each task puts in its SubscribeData
SubscribedTopic(w) == IF w = "oms" THEN "oms_input" ELSE "mgt/command"

\* format!("energy2mqtt/{}", subscribe_data.topic)
Prefixed(topic) == <<"energy2mqtt", topic>>

Transmission(type, from, ord, topic, name) ==
    [type |-> type, from |-> from, ord |-> ord, topic |-> topic, name |-> name]

NoTransmission == Transmission("none", "none", 0, <<>>, "")

Request(kind, topic) == [kind |-> kind, topic |-> topic]

NoInbound == [topic |-> <<>>, payload |-> [body |-> "none", n |-> 0], registered |-> <<>>]

\* the number the model gives the next inbound message
InboundNumber == IF budget < 0 THEN 0 ELSE MaxInbound - budget + 1

\* the receiving half of a delivery channel lives as long as its task
ReceiverOpen(w) ==
    IF w = "oms" THEN opc \in {"subscribe", "recv", "send"}
    ELSE cpc \in {"subscribe", "announce", "recv"}

\* the event loop owns the receiving half of the client's request queue
ClientOpen == epc # "panicked"

\* Callbacks::insert
CallbacksInsert(registry, topic, callback) ==
    IF topic \notin DOMAIN registry THEN registry @@ (topic :> <<callback>>)
    ELSE [registry EXCEPT ![topic] = Append(@, callback)]

RxRecvNewest(channel) ==
    [msg |-> channel[Len(channel)], rest |-> SubSeq(channel, 1, Len(channel) - 1)]

\* self.rx.recv(): the oldest message of the transmission channel
RxRecv(channel) == [msg |-> Head(channel), rest |-> Tail(channel)]

\* start_thread: let option = self.rx.recv().await and the match on it
BridgeRecv ==
    /\ bpc = "recv"
    /\ tx # <<>>
    /\ bmsg' = RxRecv(tx).msg
    /\ tx' = RxRecv(tx).rest
    /\ bpc' = CASE RxRecv(tx).msg.type = "Metering" -> "publish_raw"
                [] RxRecv(tx).msg.type = "Subscribe" -> "subscribe"
                [] OTHER -> "publish"
    /\ UNCHANGED <<req, dch, calls, lock, subscribed, epc, emsg, eidx, edelivered,
                   opc, omsg, cpc, mpc, aborted, inputs, budget, lastPub>>

PublishTopic ==
    CASE bpc = "publish_raw" -> <<"energy2mqtt", "raw">>
      [] bpc = "publish_devs" -> <<"energy2mqtt", "devs", "OMS", bmsg.name>>
      [] OTHER -> bmsg.topic

\* self.client.publish(...).await: waits for room in the request queue; Err
\* once the event loop is gone.  Metering publishes on energy2mqtt/raw, then
\* on energy2mqtt/devs/<protocol>/<meter_name>.
BridgePublish ==
    /\ bpc \in {"publish_raw", "publish_devs", "publish"}
    /\ IF ClientOpen
       THEN /\ Len(req) < REQUEST_CAPACITY
            /\ req' = Append(req, Request("publish", PublishTopic))
            /\ lastPub' = [lastPub EXCEPT ![bmsg.from] = [ord |-> bmsg.ord, stage |-> bpc]]
       ELSE UNCHANGED <<req, lastPub>>
    /\ bpc' = IF bpc = "publish_raw" THEN "publish_devs" ELSE "recv"
    /\ UNCHANGED <<tx, dch, calls, lock, subscribed, bmsg, epc, emsg, eidx, edelivered,
                   opc, omsg, cpc, mpc, aborted, inputs, budget>>

\* Transmission::Subscribe: self.client.subscribe(topic, ..).await.is_ok()
BridgeSubscribe ==
    /\ bpc = "subscribe"
    /\ IF ClientOpen
       THEN /\ Len(req) < REQUEST_CAPACITY
            /\ req' = Append(req, Request("subscribe", Prefixed(bmsg.topic)))
            /\ bpc' = "insert"
       ELSE /\ bpc' = "recv"
            /\ UNCHANGED req
    /\ UNCHANGED <<tx, dch, calls, lock, subscribed, bmsg, epc, emsg, eidx, edelivered,
                   opc, omsg, cpc, mpc, aborted, inputs, budget, lastPub>>

\* CALLBACKS.write().await.insert(topic, subscribe_data.sender)
BridgeInsert ==
    /\ bpc = "insert"
    /\ lock = "free"
    /\ calls' = CallbacksInsert(calls, Prefixed(bmsg.topic), bmsg.from)
    /\ bpc' = "recv"
    /\ UNCHANGED <<tx, req, dch, lock, subscribed, bmsg, epc, emsg, eidx, edelivered,
                   opc, omsg, cpc, mpc, aborted, inputs, budget, lastPub>>

\* eventloop.poll() takes the next request of the client and writes it to
\* the broker
EventLoopRequest ==
    /\ epc = "poll"
    /\ req # <<>>
    /\ req' = Tail(req)
    /\ subscribed' = IF Head(req).kind = "subscribe"
                     THEN subscribed \cup {Head(req).topic} ELSE subscribed
    /\ UNCHANGED <<tx, dch, calls, lock, bpc, bmsg, epc, emsg, eidx, edelivered,
                   opc, omsg, cpc, mpc, aborted, inputs, budget, lastPub>>

\* eventloop.poll() yields Incoming(Publish): CALLBACKS.write().await and
\* Callbacks::send up to its loop (a topic that is no key returns at once)
EventLoopPublish ==
    /\ epc = "poll"
    /\ budget # 0
    /\ lock = "free"
    /\ \E m \in inputs :
        /\ m[1] \in subscribed
        /\ emsg' = [topic |-> m[1],
                    payload |-> [body |-> m[2], n |-> InboundNumber],
                    registered |-> IF m[1] \in DOMAIN calls THEN calls[m[1]] ELSE <<>>]
        /\ IF m[1] \in DOMAIN calls
           THEN epc' = "send" /\ lock' = "eventloop"
           ELSE epc' = "poll" /\ lock' = "free"
    /\ budget' = IF budget < 0 THEN budget ELSE budget - 1
    /\ eidx' = 1
    /\ edelivered' = <<>>
    /\ UNCHANGED <<tx, req, dch, calls, subscribed, bpc, bmsg, opc, omsg, cpc, mpc,
                   aborted, inputs, lastPub>>

\* Callbacks::send, one pass of `for call in v`:
\* call.send(payload.clone()).await.unwrap() waits for room in the channel
\* and panics when the receiving half is gone
CallbacksSend ==
    /\ epc = "send"
    /\ LET v == calls[emsg.topic]
           call == v[eidx]
       IN  IF ~ReceiverOpen(call)
           THEN /\ epc' = "panicked"
                /\ lock' = "free"
                /\ UNCHANGED <<dch, eidx, edelivered>>
           ELSE /\ Len(dch[call]) < DELIVERY_CAPACITY
                /\ dch' = [dch EXCEPT ![call] = Append(@, emsg.payload)]
                /\ edelivered' = Append(edelivered, call)
                /\ IF eidx = Len(v)
                   THEN epc' = "poll" /\ lock' = "free" /\ eidx' = 1
                   ELSE epc' = "send" /\ lock' = lock /\ eidx' = eidx + 1
    /\ UNCHANGED <<tx, req, calls, subscribed, bpc, bmsg, emsg, opc, omsg, cpc, mpc,
                   aborted, inputs, budget, lastPub>>

\* OmsManager::start_thread: self.sender.send(register).await
OmsSubscribe ==
    /\ opc = "subscribe"
    /\ Len(tx) < TRANSMISSION_CAPACITY
    /\ tx' = Append(tx, Transmission("Subscribe", "oms", 0, SubscribedTopic("oms"), ""))
    /\ opc' = "recv"
    /\ UNCHANGED <<req, dch, calls, lock, subscribed, bpc, bmsg, epc, emsg, eidx,
                   edelivered, omsg, cpc, mpc, aborted, inputs, budget, lastPub>>

\* receiver.recv().await, hex::decode and parse_oms_telegram(&dec, true): a
\* record is sent on, an error is logged and the frame dropped, a panic
\* ends the task and drops the receiver
OmsRecv ==
    /\ opc = "recv"
    /\ dch["oms"] # <<>>
    /\ LET c == Head(dch["oms"])
       IN  IF c.body = "non_hex"
           THEN /\ dch' = [dch EXCEPT !["oms"] = Tail(@)]
                /\ UNCHANGED <<opc, omsg>>
           ELSE \E dec \in OmsResults[c.body] :
                  IF dec.kind = "Ok"
                  THEN /\ opc' = "send"
                       /\ omsg' = Transmission("Metering", "oms", c.n, <<>>, dec.meter_name)
                       /\ dch' = [dch EXCEPT !["oms"] = Tail(@)]
                  ELSE IF dec.kind = "Err"
                  THEN /\ dch' = [dch EXCEPT !["oms"] = Tail(@)]
                       /\ UNCHANGED <<opc, omsg>>
                  ELSE /\ opc' = "panicked"
                       /\ dch' = [dch EXCEPT !["oms"] = <<>>]
                       /\ UNCHANGED omsg
    /\ UNCHANGED <<tx, req, calls, lock, subscribed, bpc, bmsg, epc, emsg, eidx,
                   edelivered, cpc, mpc, aborted, inputs, budget, lastPub>>

\* self.sender.send(Transmission::Metering(doc)).await
OmsSend ==
    /\ opc = "send"
    /\ Len(tx) < TRANSMISSION_CAPACITY
    /\ tx' = Append(tx, omsg)
    /\ opc' = "recv"
    /\ UNCHANGED <<req, dch, calls, lock, subscribed, bpc, bmsg, epc, emsg, eidx,
                   edelivered, omsg, cpc, mpc, aborted, inputs, budget, lastPub>>

\* CommandHandler::start_thread: self.sender.send(register).await
CmdSubscribe ==
    /\ cpc = "subscribe"
    /\ Len(tx) < TRANSMISSION_CAPACITY
    /\ tx' = Append(tx, Transmission("Subscribe", "cmd", 0, SubscribedTopic("cmd"), ""))
    /\ cpc' = "announce"
    /\ UNCHANGED <<req, dch, calls, lock, subscribed, bpc, bmsg, epc, emsg, eidx,
                   edelivered, opc, omsg, mpc, aborted, inputs, budget, lastPub>>

\* self.sender.send(p).await: the discovery document of the bridge device
CmdAnnounce ==
    /\ cpc = "announce"
    /\ Len(tx) < TRANSMISSION_CAPACITY
    /\ tx' = Append(tx, Transmission("Publish", "cmd", 1,
                                     <<"homeassistant", "device", "e2m_bridge", "config">>, ""))
    /\ cpc' = "recv"
    /\ UNCHANGED <<req, dch, calls, lock, subscribed, bpc, bmsg, epc, emsg, eidx,
                   edelivered, opc, omsg, mpc, aborted, inputs, budget, lastPub>>

IsRestartNever(c) == FALSE

\* if c == "restart"
IsRestart(c) == c = "restart"

\* while let Some(c) = receiver.recv().await: return on "restart"
CmdRecv ==
    /\ cpc = "recv"
    /\ dch["cmd"] # <<>>
    /\ IF IsRestart(Head(dch["cmd"]).body)
       THEN /\ cpc' = "done"
            /\ dch' = [dch EXCEPT !["cmd"] = <<>>]
       ELSE /\ cpc' = "recv"
            /\ dch' = [dch EXCEPT !["cmd"] = Tail(@)]
    /\ UNCHANGED <<tx, req, calls, lock, subscribed, bpc, bmsg, epc, emsg, eidx,
                   edelivered, opc, omsg, mpc, aborted, inputs, budget, lastPub>>

\* task.is_finished(), for the tasks of main's `threads`
IsFinished(task) ==
    CASE task = "oms" -> opc = "panicked"
      [] task = "cmd" -> cpc = "done"
      [] OTHER -> FALSE

\* main: the pass of the supervision loop, every 10 s, that finds a
\* finished task: it aborts every task and returns, which ends the runtime
\* and the event loop with it
MainTick ==
    /\ mpc = "running"
    /\ \E task \in TopLevelTasks : IsFinished(task)
    /\ aborted' = TopLevelTasks
    /\ mpc' = "returned"
    /\ bpc' = "aborted"
    /\ opc' = IF opc \in {"panicked", "idle"} THEN opc ELSE "aborted"
    /\ cpc' = IF cpc \in {"done", "idle"} THEN cpc ELSE "aborted"
    /\ epc' = IF epc = "panicked" THEN epc ELSE "stopped"
    /\ lock' = "free"
    /\ UNCHANGED <<tx, req, dch, calls, subscribed, bmsg, emsg, eidx, edelivered,
                   omsg, inputs, budget, lastPub>>

\* the inbound messages of each specification
PipeInputs == {<<Prefixed("oms_input"), "valid">>}

BridgeInputs ==
    {<<Prefixed("oms_input"), body>> : body \in {"valid", "mode7", "bad_crc"}}
        \cup {<<Prefixed("mgt/command"), body>> : body \in {"restart", "status"}}

OmsInputs == {<<Prefixed("oms_input"), body>> : body \in TelegramNames \cup {"non_hex"}}

\* the state after MqttManager::new and the spawns of main
InitPipeVars ==
    /\ tx = <<>>
    /\ req = <<>>
    /\ dch = [w \in Subscribers |-> <<>>]
    /\ calls = [t \in {} |-> <<>>]
    /\ lock = "free"
    /\ subscribed = {}
    /\ bpc = "recv"
    /\ bmsg = NoTransmission
    /\ epc = "poll"
    /\ emsg = NoInbound
    /\ eidx = 1
    /\ edelivered = <<>>
    /\ opc = "subscribe"
    /\ omsg = NoTransmission
    /\ mpc = "running"
    /\ aborted = {}
    /\ lastPub = [p \in Subscribers |-> [ord |-> -1, stage |-> "none"]]

(***************************************************************************)
(* Value mappings of a Modbus register (read_device_registers, lines       *)
(* 344-367).  Text is a sequence of characters; a scaler is a fraction     *)
(* num/den; a JSON value is [kind |-> "number", value |-> n] or            *)
(* [kind |-> "string", value |-> s].                                       *)
(***************************************************************************)
Digit(n) == <<"0", "1", "2", "3", "4", "5", "6", "7", "8", "9">>[n + 1]

\* the decimal digits of a natural number
RECURSIVE DecimalString(_)
DecimalString(n) ==
    IF n < 10 THEN <<Digit(n)>>
    ELSE Append(DecimalString(n \div 10), Digit(n % 10))

\* (v as f32 * reg.scaler).round(): to the nearest integer, halves away from 0
ScaledRound(v, scaler) == (2 * v * scaler.num + scaler.den) \div (2 * scaler.den)

\* format!("{:?}", v) of an f32 that holds a whole number below 1e16:
\* Debug of a float always prints a fraction, "1.0" for 1
FormatDebugF32(v) == DecimalString(v) \o <<".", "0">>

\* for mapping in reg.mappings.iter() { if mapping.data == text { ...; break } }
RECURSIVE FirstMapping(_, _, _)
FirstMapping(mappings, i, text) ==
    IF i > Len(mappings) THEN 0
    ELSE IF mappings[i].data = text THEN i
    ELSE FirstMapping(mappings, i + 1, text)

JsonNumber(n) == [kind |-> "number", value |-> n]

\* lines 344-365: the value inserted under the register's name
MappedValue(raw, scaler, mappings) ==
    LET v == ScaledRound(raw, scaler)
        exact == FirstMapping(mappings, 1, FormatDebugF32(v))
        wildcard == FirstMapping(mappings, 1, <<"_">>)
    IN  IF exact # 0 THEN mappings[exact].mapping
        ELSE IF wildcard # 0 THEN mappings[wildcard].mapping
        ELSE JsonNumber(v)

\* the register values, scalers and mapping lists of the model
Scalers == {[num |-> 1, den |-> 1], [num |-> 10, den |-> 1], [num |-> 1, den |-> 10]}
MappingData == {<<"1">>, <<"1", ".", "0">>, <<"5">>, <<"_">>}
MappingTargets == {[kind |-> "string", value |-> "on"],
                   [kind |-> "string", value |-> "unknown"]}
Mappings == [data : MappingData, mapping : MappingTargets]
MappingLists == UNION {[1..n -> Mappings] : n \in 0..MaxMappings}

\* one register's value goes through the mappings
ApplyMappings ==
    /\ fcall.fn = "mappings"
    /\ fret = NoReturn
    /\ fret' = MappedValue(fcall.raw, fcall.scaler, fcall.mappings)
    /\ UNCHANGED fcall

InitMappings ==
    /\ fcall \in [fn : {"mappings"}, raw : 0..MaxRaw, scaler : Scalers,
                  mappings : MappingLists]
    /\ fret = NoReturn

(***************************************************************************)
(* One call of parse_oms_telegram (metering_oms/mod.rs 91-236) on a        *)
(* telegram of the model, with or without the CRC check, in a build with   *)
(* or without overflow checks.                                             *)
(***************************************************************************)
CallParseOms ==
    /\ fcall.fn = "parse_oms_telegram"
    /\ fret = NoReturn
    /\ fret' = parse_oms_telegram(OmsTelegrams[fcall.telegram], fcall.with_crc,
                                  fcall.overflow_checks)
    /\ UNCHANGED fcall

InitParseOms ==
    /\ fcall \in [fn : {"parse_oms_telegram"}, telegram : TelegramNames,
                  with_crc : BOOLEAN, overflow_checks : BOOLEAN]
    /\ fret = NoReturn

(***************************************************************************)
(* One call of verifiy_crc (metering_oms/utils.rs 10-54) on a frame a      *)
(* meter builds: a body cut into a first block of 10 bytes, blocks of 16   *)
(* bytes and a last block of what is left, each followed by its CRC; one   *)
(* CRC byte of one block may be damaged on the way.                        *)
(***************************************************************************)
\* the bytes of the test telegram without its CRCs, repeated
BodyBytes ==
    verifiy_crc(ValidTelegram, TRUE).payload \o verifiy_crc(ValidTelegram, TRUE).payload

FrameBody(n) == SubSeq(BodyBytes, 1, n)

\* blocks of a body of n >= 10 bytes
BlockCount(n) == 1 + ((n - 10) + 15) \div 16

\* 1-based position of the second CRC byte of block b in the frame of an
\* n byte body
CrcEnd(n, b) == IF b = BlockCount(n) THEN n + 2 * b ELSE 12 + 18 * (b - 1)

\* the frame of an n byte body; block `block` (0: none) has CRC byte `byte`
\* (0: high, 1: low) changed
BuiltFrame(n, block, byte) ==
    LET frame == AddCrc(FrameBody(n), TRUE)
    IN  IF block = 0 THEN frame
        ELSE [frame EXCEPT ![CrcEnd(n, block) - 1 + byte] = (@ + 1) % 256]

CallVerifyCrc ==
    /\ fcall.fn = "verifiy_crc"
    /\ fret = NoReturn
    /\ fret' = verifiy_crc(BuiltFrame(fcall.len, fcall.block, fcall.byte),
                           fcall.overflow_checks)
    /\ UNCHANGED fcall

InitCrc ==
    /\ fcall \in {[fn |-> "verifiy_crc", len |-> n, block |-> b, byte |-> y,
                   overflow_checks |-> oc] :
                     n \in 10..MaxBodyLen, b \in 0..3, y \in {0, 1}, oc \in BOOLEAN}
    /\ fcall.block <= BlockCount(fcall.len)
    /\ fcall.block = 0 => fcall.byte = 0
    /\ fret = NoReturn

(***************************************************************************)
(* One call of parse_oms_telegram (metering_oms/mod.rs 91-236) on a        *)
(* telegram put together from its parts: the L and C field, the sender's   *)
(* identification, the CI field, what follows it, and the block whose CRC  *)
(* is damaged on the way.                                                  *)
(***************************************************************************)
\* what follows the CI field: nothing, four zero bytes (a short header of
\* security mode 0), or the rest of a short header with its encrypted records
TplRests == {"none", "zeros", "mode0", "wrong_key", "valid"}

TplRest(name, ident) ==
    CASE name = "none" -> <<>>
      [] name = "zeros" -> <<0, 0, 0, 0>>
      [] name = "mode0" ->
            Tail(ShortTpl(32)) \o Cipher(ident, MeterKey, PlainRecords)
      [] name = "wrong_key" ->
            Tail(ShortTpl(37)) \o Cipher(ident, OtherKey, PlainRecords)
      [] name = "valid" ->
            Tail(ShortTpl(37)) \o Cipher(ident, MeterKey, PlainRecords)

\* the telegram without its CRCs; an L field of 255 announces more bytes
\* than the telegram has
TelegramBodyOf(c) ==
    LET rest == TplRest(c.rest, c.ident)
        l_field == IF c.long_l THEN 255 ELSE 10 + Len(rest)
    IN  [Header(l_field, c.ident) EXCEPT ![2] = c.c_field] \o <<c.ci>> \o rest

\* the telegram as received
TelegramOf(c) ==
    LET body == TelegramBodyOf(c)
        frame == AddCrc(body, TRUE)
    IN  IF c.block = 0 THEN frame
        ELSE [frame EXCEPT ![CrcEnd(Len(body), c.block) - 1 + c.byte] = (@ + 1) % 256]

CallParseTelegramOf ==
    /\ fcall.fn = "parse_oms_telegram of parts"
    /\ fret = NoReturn
    /\ fret' = parse_oms_telegram(TelegramOf(fcall), TRUE, fcall.overflow_checks)
    /\ UNCHANGED fcall

InitTelegramOf ==
    /\ fcall \in [fn : {"parse_oms_telegram of parts"},
                  long_l : BOOLEAN,
                  c_field : {68, 8},
                  ident : {120, 122},
                  ci : {122, 103, 114, 112, 102, 0},
                  rest : TplRests,
                  block : 0..MaxDamagedBlock,
                  byte : {0, 1},
                  overflow_checks : BOOLEAN]
    /\ fcall.block <= BlockCount(Len(TelegramBodyOf(fcall)))
    /\ fcall.block = 0 => fcall.byte = 0
    /\ fret = NoReturn

(***************************************************************************)
(* The values parse_payload returns (div_vif_parser.rs 76-118, 181-200,    *)
(* 370-464).  A JSON value is a record [kind, n, exp, s]: an integer n, a  *)
(* float n * 10^exp, or a string s.  A key of the returned map is          *)
(* [field, pos, vif]: a field name of the VIF table, or unknown_at_<pos>_  *)
(* <vif> of its last arm.  The entry of a key holds the value inserted     *)
(* under the field name and the unit inserted under <field name>_unit.     *)
(* The tables of the extension VIFs 0xFB and 0xFD are not part of the      *)
(* model: no payload of the model holds one.  Values stay below 2^31.      *)
(***************************************************************************)
JsonInt(n) == [kind |-> "int", n |-> n, exp |-> 0, s |-> ""]
JsonFloat(n, exp) == [kind |-> "float", n |-> n, exp |-> exp, s |-> ""]
JsonString(s) == [kind |-> "string", n |-> 0, exp |-> 0, s |-> s]
\* the text parse_time_point formats from the time value: type F or type G
JsonDate(time, type_f) == [kind |-> "date", n |-> time, exp |-> type_f, s |-> ""]

FieldKey(name) == [field |-> name, pos |-> 0, vif |-> 0]
\* format!("unknown_at_{cur_pos}_{vif:x}")
UnknownKey(cur_pos, vif) == [field |-> "unknown_at", pos |-> cur_pos, vif |-> vif]

\* little-endian integer of the bytes payload[cur_pos .. cur_pos + len)
RECURSIVE LittleEndian(_, _, _)
LittleEndian(payload, cur_pos, len) ==
    IF len = 0 THEN 0
    ELSE At(payload, cur_pos) + 256 * LittleEndian(payload, cur_pos + 1, len - 1)

\* bcd_to_integer_sized
RECURSIVE bcd_to_integer_sized(_, _, _)
bcd_to_integer_sized(payload, cur_pos, len) ==
    IF len = 0 THEN 0
    ELSE LET byte == At(payload, cur_pos + len - 1)
         IN  ((byte \div 16) * 10 + (byte % 16))
                 + 100 * bcd_to_integer_sized(payload, cur_pos, len - 1)

\* the DifHandler get_dif_function selects, applied at cur_pos
DifValue(dif, payload, cur_pos) ==
    IF dif \in {1, 2, 3, 4, 6, 7} THEN JsonInt(LittleEndian(payload, cur_pos, DifReads(dif)))
    ELSE IF dif = 5 THEN JsonFloat(0, 0)
    ELSE IF dif = 12 THEN JsonInt(bcd_to_integer_sized(payload, cur_pos, 4))
    ELSE IF dif = 240 THEN JsonString("1111 1111")
    ELSE JsonString("")

\* upper end of the on-time arm  0b00100000..=0b00100000
OnTimeLast == 32

VifData(fildname, exp, vif_function, unit) ==
    [fildname |-> fildname, exp |-> exp, vif_function |-> vif_function, unit |-> unit]

\* get_vif_function, the primary table (the match on vif & 0x7F); a scaler
\* is given by its exponent of ten.  The arm of the averaging duration ends
\* at the decimal literal 01110011 and so takes every value from 0x70 on.
get_vif_function(vif, cur_pos) ==
    LET v == vif % 128
    IN  IF v <= 7 THEN VifData(FieldKey("energy"), (vif % 8) - 3, "none", "Wh")
        ELSE IF v <= 15 THEN VifData(FieldKey("energy"), (vif % 8) - 3, "none", "J")
        ELSE IF v <= 23 THEN VifData(FieldKey("volume"), (vif % 8) - 6, "none", "m3")
        ELSE IF v <= 31 THEN VifData(FieldKey("mass"), (vif % 8) - 3, "none", "kg")
        ELSE IF v <= OnTimeLast
             THEN VifData(FieldKey("on_time"), 0, "parse_on_time", "s")
        ELSE IF v >= 36 /\ v <= 39
             THEN VifData(FieldKey("operation_time"), 0, "parse_on_time", "s")
        ELSE IF v >= 40 /\ v <= 47 THEN VifData(FieldKey("power"), (vif % 8) - 3, "none", "W")
        ELSE IF v >= 48 /\ v <= 55 THEN VifData(FieldKey("power"), vif % 8, "none", "J/h")
        ELSE IF v >= 56 /\ v <= 63
             THEN VifData(FieldKey("volume_flow"), (vif % 8) - 6, "none", "m3/h")
        ELSE IF v >= 64 /\ v <= 71
             THEN VifData(FieldKey("volume_flow_ext"), (vif % 8) - 7, "none", "m3/min")
        ELSE IF v >= 72 /\ v <= 79
             THEN VifData(FieldKey("volume_flow_ext"), (vif % 8) - 9, "none", "m3/s")
        ELSE IF v >= 80 /\ v <= 87
             THEN VifData(FieldKey("mass_flow"), (vif % 8) - 3, "none", "kg/h")
        ELSE IF v >= 88 /\ v <= 91
             THEN VifData(FieldKey("flow_temperature"), (vif % 4) - 3, "none", "C")
        ELSE IF v >= 92 /\ v <= 95
             THEN VifData(FieldKey("return_temperature"), (vif % 4) - 3, "none", "C")
        ELSE IF v >= 96 /\ v <= 99
             THEN VifData(FieldKey("temperature_difference"), (vif % 4) - 3, "none", "K")
        ELSE IF v >= 100 /\ v <= 103
             THEN VifData(FieldKey("external_temperature"), (vif % 4) - 3, "none", "C")
        ELSE IF v >= 104 /\ v <= 107
             THEN VifData(FieldKey("pressure"), (vif % 4) - 3, "none", "bar")
        ELSE IF v >= 108 /\ v <= 109
             THEN VifData(FieldKey("time_of_readout"), 0, "parse_time_point", "")
        ELSE IF v = 110 THEN VifData(FieldKey("hca_units"), 0, "none", "")
        ELSE IF v >= 112
             THEN VifData(FieldKey("averaging_duration"), 0, "parse_on_time", "s")
        ELSE VifData(UnknownKey(cur_pos, vif), 0, "none", "unknown")

\* parse_on_time
parse_on_time(vif, data) ==
    IF data.kind # "int" THEN JsonString("unparseable")
    ELSE JsonInt(CASE vif % 4 = 0 -> data.n
                   [] vif % 4 = 1 -> data.n * 60
                   [] vif % 4 = 2 -> data.n * 60 * 60
                   [] vif % 4 = 3 -> data.n * 24 * 60 * 60)

\* parse_time_point
parse_time_point(vif, data) ==
    IF data.kind \notin {"int", "float"} THEN JsonString("unparseable not a number")
    ELSE IF data.kind = "float" THEN JsonString("unparseable not i64")
    ELSE JsonDate(data.n, vif % 2)

\* parse_payload, lines 447-454: the converter of the VIF, or its scaler
Converted(vif_data, vif, value) ==
    IF vif_data.vif_function = "parse_on_time" THEN parse_on_time(vif, value)
    ELSE IF vif_data.vif_function = "parse_time_point" THEN parse_time_point(vif, value)
    ELSE IF value.kind \in {"int", "float"} /\ vif_data.exp # 0
    THEN JsonFloat(value.n, vif_data.exp)
    ELSE value

\* ret.insert(key, value): a later entry replaces an earlier one
MapInsert(map, key, entry) ==
    [k \in DOMAIN map \cup {key} |-> IF k = key THEN entry ELSE map[k]]

\* parse_payload, the map it returns for a payload it walks without panic
RECURSIVE parse_payload_values(_, _, _)
parse_payload_values(payload, cur_pos, map) ==
    IF cur_pos >= Len(payload) THEN map
    ELSE LET dif == At(payload, cur_pos)
             vif_pos == cur_pos + 1
             vif == At(payload, vif_pos)
             vif_data == get_vif_function(vif, vif_pos)
             data_pos == vif_pos + 1
             value == Converted(vif_data, vif, DifValue(dif, payload, data_pos))
         IN  IF ~DifCheckFurther(dif) THEN parse_payload_values(payload, vif_pos, map)
             ELSE parse_payload_values(payload, data_pos + DifSkips(dif),
                      MapInsert(map, vif_data.fildname,
                                [value |-> value, unit |-> vif_data.unit]))

\* the payloads of the model: one record of an integer DIF, a VIF of the
\* primary table and a value of the DIF's width
IntegerDifs == {1, 2, 3, 4, 6, 7}
PrimaryVifs == (0..255) \ {251, 253}

RECURSIVE LittleEndianBytes(_, _)
LittleEndianBytes(n, len) ==
    IF len = 0 THEN <<>> ELSE <<n % 256>> \o LittleEndianBytes(n \div 256, len - 1)

RecordPayload(dif, vif, raw) == <<dif, vif>> \o LittleEndianBytes(raw, DifReads(dif))

CallParsePayload ==
    /\ fcall.fn = "parse_payload"
    /\ fret = NoReturn
    /\ fret' = IF parse_payload(fcall.payload, 0) = "Panic"
               THEN [kind |-> "Panic", map |-> <<>>]
               ELSE [kind |-> "Ok", map |-> parse_payload_values(fcall.payload, 0, <<>>)]
    /\ UNCHANGED fcall

InitPayload ==
    /\ fcall \in {[fn |-> "parse_payload", payload |-> RecordPayload(dif, vif, raw)] :
                     dif \in IntegerDifs, vif \in PrimaryVifs, raw \in 0..MaxTimeValue}
    /\ fret = NoReturn

(***************************************************************************)
(* The IEC 62056-21 parser (metering_62056/mod.rs 91-155, utils.rs 4-37,   *)
(* obis_parser.rs 5-43, obis_utils/mod.rs 163-175).  A telegram is a       *)
(* sequence of bytes; the values of the returned record are byte strings   *)
(* under byte-string keys.                                                 *)
(***************************************************************************)
Ascii(c) ==
    CASE c = "/" -> 47 [] c = "!" -> 33 [] c = "(" -> 40 [] c = ")" -> 41
      [] c = "*" -> 42 [] c = " " -> 32 [] c = "\n" -> 10 [] c = "_" -> 95
      [] c = "1" -> 49 [] c = "2" -> 50 [] c = "3" -> 51 [] c = "5" -> 53
      [] c = "E" -> 69 [] c = "L" -> 76 [] c = "S" -> 83 [] c = "k" -> 107
      [] c = "u" -> 117 [] c = "n" -> 110 [] c = "i" -> 105 [] c = "t" -> 116
      [] c = "p" -> 112 [] c = "r" -> 114 [] c = "o" -> 111

Bytes(chars) == [i \in DOMAIN chars |-> Ascii(chars[i])]

\* str::lines: the pieces between line feeds, a trailing carriage return
\* removed from each; no empty last line
RECURSIVE Lines(_, _)
Lines(text, line) ==
    IF text = <<>> THEN (IF line = <<>> THEN <<>> ELSE <<line>>)
    ELSE IF Head(text) = 10
    THEN <<IF line # <<>> /\ line[Len(line)] = 13
           THEN SubSeq(line, 1, Len(line) - 1) ELSE line>> \o Lines(Tail(text), <<>>)
    ELSE Lines(Tail(text), Append(line, Head(text)))

IsWhitespace(b) == b \in {9, 10, 11, 12, 13, 32}

\* str::trim
RECURSIVE Trim(_)
Trim(s) ==
    IF s = <<>> THEN s
    ELSE IF IsWhitespace(Head(s)) THEN Trim(Tail(s))
    ELSE IF IsWhitespace(s[Len(s)]) THEN Trim(SubSeq(s, 1, Len(s) - 1))
    ELSE s

\* str::find and str::rfind of one byte: 0-based index, -1 for None
Find(s, b) ==
    IF \E i \in DOMAIN s : s[i] = b
    THEN (CHOOSE i \in DOMAIN s : s[i] = b /\ \A j \in 1..(i - 1) : s[j] # b) - 1
    ELSE -1

RFind(s, b) ==
    IF \E i \in DOMAIN s : s[i] = b
    THEN (CHOOSE i \in DOMAIN s : s[i] = b /\ \A j \in (i + 1)..Len(s) : s[j] # b) - 1
    ELSE -1

\* an Option<String>
None == [some |-> FALSE, text |-> <<>>]
Some(text) == [some |-> TRUE, text |-> text]

\* a mutant of extract_unit: a value without unit has the empty unit
extract_unit_or_empty(value_content) ==
    Some(Slice(value_content, RFind(value_content, 42) + 1, Len(value_content)))

\* obis_utils::extract_unit: the text after the last '*', if there is any
extract_unit(value_content) ==
    LET star_pos == RFind(value_content, 42)
        unit == Slice(value_content, star_pos + 1, Len(value_content))
    IN  IF star_pos >= 0 /\ unit # <<>> THEN Some(unit) ELSE None

\* obis_parser::parse_obis_line
parse_obis_line(raw_line) ==
    LET line == Trim(raw_line)
        paren_start == Find(line, 40)
        paren_end == RFind(line, 41)
        value_content == Slice(line, paren_start + 1, paren_end)
    IN  IF paren_start < 0 \/ paren_end < 0 \/ paren_start >= paren_end
        THEN [kind |-> "Err", code |-> <<>>, value |-> <<>>, unit |-> None]
        ELSE [kind |-> "Ok", code |-> Trim(Slice(line, 0, paren_start)),
              value |-> value_content, unit |-> extract_unit(value_content)]

UnitKey(code) == code \o Bytes(<<"_", "u", "n", "i", "t">>)
ProtoKey == Bytes(<<"p", "r", "o", "t", "o">>)
\* stands for the protocol map stored under "proto"
ProtoValue == <<-1>>

\* the loop over lines[1..] of parse_iec62056_telegram (lines 120-147)
RECURSIVE ParseDataLines(_, _, _)
ParseDataLines(lines, i, values) ==
    IF i > Len(lines) THEN values
    ELSE IF Trim(lines[i]) = <<>> THEN ParseDataLines(lines, i + 1, values)
    ELSE IF lines[i][1] = 33 THEN values
    ELSE LET obis_data == parse_obis_line(lines[i])
             with_value == MapInsert(values, obis_data.code, obis_data.value)
         IN  IF obis_data.kind # "Ok" THEN ParseDataLines(lines, i + 1, values)
             ELSE ParseDataLines(lines, i + 1,
                      IF obis_data.unit.some
                      THEN MapInsert(with_value, UnitKey(obis_data.code),
                                     obis_data.unit.text)
                      ELSE with_value)

IecErr(e) == [kind |-> "Err", error |-> e, meter_name |-> <<>>, values |-> <<>>]

\* parse_iec62056_telegram with utils::parse_identification_line
parse_iec62056_telegram(telegram) ==
    LET lines == Lines(telegram, <<>>)
        content == Tail(lines[1])
    IN  IF lines = <<>> THEN IecErr("InvalidFormat")
        ELSE IF lines[1] = <<>> \/ lines[1][1] # 47 THEN IecErr("MissingIdentification")
        ELSE IF Len(content) < 3 THEN IecErr("InvalidFormat")
        ELSE [kind |-> "Ok", error |-> "",
              meter_name |-> SubSeq(content, 1, 3) \o content,
              values |-> MapInsert(ParseDataLines(lines, 2, <<>>), ProtoKey, ProtoValue)]

\* the telegrams of the model: an identification line, data lines, the end
\* line and after its '!' no byte, the block check character or another byte
IdentificationLine == Bytes(<<"/", "E", "L", "S", "5">>)
DataLines ==
    { Bytes(<<"1", "(", "2", "*", "k", ")">>),
      Bytes(<<"1", "(", "3", ")">>),
      Bytes(<<"2", "(", "3", "*", ")">>),
      Bytes(<<" ", "3", "(", "1", "*", "2", "*", "k", ")", " ">>),
      Bytes(<<"1", "2">>),
      Bytes(<<")", "(">>),
      Bytes(<<" ">>) }

RECURSIVE JoinLines(_)
JoinLines(lines) ==
    IF lines = <<>> THEN <<>> ELSE Head(lines) \o <<10>> \o JoinLines(Tail(lines))

\* the block check character: XOR of the bytes after '/' up to the '!'
XorAll(bytes) ==
    The({ LET Bit(k) == (Cardinality({i \in DOMAIN b : (b[i] \div k) % 2 = 1}) % 2) * k
          IN  ((Bit(1) + Bit(2)) + (Bit(4) + Bit(8)))
              + ((Bit(16) + Bit(32)) + (Bit(64) + Bit(128))) :
          b \in {bytes} })

TelegramBody(data) == JoinLines(<<IdentificationLine>> \o data) \o <<33>>
Bcc(data) == XorAll(Tail(TelegramBody(data)))

IecTelegram(data, checksum) ==
    TelegramBody(data) \o
        (CASE checksum = "none" -> <<>>
           [] checksum = "right" -> <<Bcc(data)>>
           [] checksum = "wrong" -> <<(Bcc(data) + 1) % 256>>)

CallParseIec ==
    /\ fcall.fn = "parse_iec62056_telegram"
    /\ fret = NoReturn
    /\ fret' = parse_iec62056_telegram(IecTelegram(fcall.data, fcall.checksum))
    /\ UNCHANGED fcall

InitIec ==
    /\ fcall \in [fn : {"parse_iec62056_telegram"},
                  data : UNION {[1..n -> DataLines] : n \in 0..MaxDataLines},
                  checksum : {"none", "right", "wrong"}]
    /\ fret = NoReturn

(***************************************************************************)
(* The SML parser (metering_sml/parser.rs).  SmlParser holds the bytes and *)
(* the cursor pos; a parser function is modelled as an operator that takes *)
(* the bytes and the cursor and returns Ok with the value or Err, together *)
(* with the cursor it leaves.  Values are kept as their bytes.             *)
(***************************************************************************)
SmlNone == [some |-> FALSE, bytes |-> <<>>]
SmlSome(bytes) == [some |-> TRUE, bytes |-> bytes]

SmlOk(val, pos) == [ok |-> TRUE, val |-> val, pos |-> pos]
SmlErr(pos) == [ok |-> FALSE, val |-> SmlNone, pos |-> pos]

\* SmlParser::parse_type_length: bits 4-6 are the type, the low nibble the
\* length, 0x0F announcing the length in the next byte
parse_type_length(data, pos) ==
    IF pos >= Len(data)
    THEN [ok |-> FALSE, type |-> 0, length |-> 0, pos |-> pos]
    ELSE LET first_byte == At(data, pos)
             type_field == (first_byte \div 16) % 8
             length_field == first_byte % 16
         IN  IF length_field = 15
             THEN IF pos + 1 >= Len(data)
                  THEN [ok |-> FALSE, type |-> 0, length |-> 0, pos |-> pos + 1]
                  ELSE [ok |-> TRUE, type |-> type_field,
                        length |-> At(data, pos + 1), pos |-> pos + 2]
             ELSE [ok |-> TRUE, type |-> type_field,
                   length |-> length_field, pos |-> pos + 1]

\* SmlParser::parse_octet_string
parse_octet_string(data, pos) ==
    LET tl == parse_type_length(data, pos)
    IN  IF ~tl.ok THEN SmlErr(tl.pos)
        ELSE IF tl.type = 0 THEN SmlOk(SmlNone, tl.pos)
        ELSE IF tl.length > 0
        THEN IF tl.pos + tl.length > Len(data)
             THEN SmlErr(tl.pos)
             ELSE SmlOk(SmlSome(Slice(data, tl.pos, tl.pos + tl.length)),
                        tl.pos + tl.length)
        ELSE SmlOk(SmlNone, tl.pos)

\* the bytes 01 02 .. n
Counting(n) == [i \in 1..n |-> i]

\* one call of parse_octet_string on a fresh parser
CallParseOctetString ==
    /\ fcall.fn = "parse_octet_string"
    /\ fret = NoReturn
    /\ fret' = [kind |-> "returned",
                result |-> parse_octet_string(fcall.data, 0)]
    /\ UNCHANGED fcall

\* every TL byte, followed by up to MaxOctets bytes
InitOctetString ==
    /\ fcall \in {[fn |-> "parse_octet_string", data |-> <<tl>> \o Counting(n)] :
                     tl \in 0..255, n \in 0..MaxOctets}
    /\ fret = NoReturn

\* parse_unsigned8/16/32/64, parse_signed8/16/32/64 and parse_bool (the type
\* is not looked at, the length must be the value's size n) and their
\* optional variants (a type of 0 is an absent value)
parse_sized(data, pos, n, optional) ==
    LET tl == parse_type_length(data, pos)
    IN  IF ~tl.ok THEN SmlErr(tl.pos)
        ELSE IF optional /\ tl.type = 0 THEN SmlOk(SmlNone, tl.pos)
        ELSE IF tl.length # n THEN SmlErr(tl.pos)
        ELSE IF tl.pos + n > Len(data) THEN SmlErr(tl.pos)
        ELSE SmlOk(SmlSome(Slice(data, tl.pos, tl.pos + n)), tl.pos + n)

\* SmlParser::parse_optional_value: the cursor is set back by one and the
\* value parsed again by its type
parse_optional_value(data, pos) ==
    LET tl == parse_type_length(data, pos)
        rewound == tl.pos - 1
    IN  IF ~tl.ok THEN SmlErr(tl.pos)
        ELSE IF tl.type = 0 THEN SmlOk(SmlNone, tl.pos)
        ELSE IF tl.type = 5 THEN parse_sized(data, rewound, 1, FALSE)
        ELSE IF tl.type = 6
        THEN IF tl.length \in {1, 2, 4, 8}
             THEN parse_sized(data, rewound, tl.length, FALSE)
             ELSE SmlErr(rewound)
        ELSE IF rewound + 1 + tl.length > Len(data) THEN SmlErr(rewound + 1)
        ELSE SmlOk(SmlSome(Slice(data, rewound + 1, rewound + 1 + tl.length)),
                   rewound + 1 + tl.length)

\* SmlParser::parse_optional_tree
parse_optional_tree(data, pos) ==
    LET tl == parse_type_length(data, pos)
    IN  IF ~tl.ok THEN SmlErr(tl.pos)
        ELSE IF tl.type = 0 THEN SmlOk(SmlNone, tl.pos)
        ELSE LET parameter_name == parse_octet_string(data, tl.pos)
             IN  IF ~parameter_name.ok THEN parameter_name
                 ELSE parse_optional_value(data, parameter_name.pos)

\* SmlParser::skip_list
skip_list(data, pos) ==
    LET tl == parse_type_length(data, pos)
    IN  IF ~tl.ok THEN SmlErr(tl.pos)
        ELSE IF tl.pos + tl.length > Len(data) THEN SmlErr(tl.pos)
        ELSE SmlOk(SmlNone, tl.pos + tl.length)

\* one field of a structure, named after its parser
parse_field(data, pos, field) ==
    CASE field = "octet_string" -> parse_octet_string(data, pos)
      [] field = "unsigned8" -> parse_sized(data, pos, 1, FALSE)
      [] field = "unsigned16" -> parse_sized(data, pos, 2, FALSE)
      [] field = "optional_unsigned8" -> parse_sized(data, pos, 1, TRUE)
      [] field = "optional_signed8" -> parse_sized(data, pos, 1, TRUE)
      [] field = "optional_unsigned16" -> parse_sized(data, pos, 2, TRUE)
      [] field = "optional_unsigned32" -> parse_sized(data, pos, 4, TRUE)
      [] field = "optional_unsigned64" -> parse_sized(data, pos, 8, TRUE)
      [] field = "optional_value" -> parse_optional_value(data, pos)
      [] field = "optional_tree" -> parse_optional_tree(data, pos)

\* the fields of a structure one after the other, `?` leaving at the first
\* error; the value is the value of the last field
RECURSIVE parse_fields(_, _, _)
parse_fields(data, pos, fields) ==
    IF fields = <<>> THEN SmlOk(SmlNone, pos)
    ELSE The({ IF ~first.ok \/ Len(fields) = 1 THEN first
               ELSE parse_fields(data, first.pos, Tail(fields)) :
               first \in {parse_field(data, pos, Head(fields))} })

\* SmlParser::parse_list_entry
ListEntryFields ==
    <<"octet_string", "optional_unsigned64", "optional_unsigned32",
      "optional_unsigned8", "optional_signed8", "optional_value", "octet_string">>

\* SmlParser::parse_val_list: the list length and that many entries
RECURSIVE parse_list_entries(_, _, _)
parse_list_entries(data, pos, list_length) ==
    IF list_length = 0 THEN SmlOk(SmlNone, pos)
    ELSE The({ IF ~entry.ok THEN entry
               ELSE parse_list_entries(data, entry.pos, list_length - 1) :
               entry \in {parse_fields(data, pos, ListEntryFields)} })

parse_val_list(data, pos) ==
    LET tl == parse_type_length(data, pos)
    IN  IF ~tl.ok THEN SmlErr(tl.pos)
        ELSE IF tl.type # 7 THEN SmlErr(tl.pos)
        ELSE parse_list_entries(data, tl.pos, tl.length)

\* SmlParser::parse_get_list_response
parse_get_list_response(data, pos) ==
    The({ IF ~head.ok THEN head
          ELSE The({ IF ~val_list.ok THEN val_list
                     ELSE parse_fields(data, val_list.pos,
                                       <<"octet_string", "optional_unsigned32">>) :
                     val_list \in {parse_val_list(data, head.pos)} }) :
          head \in {parse_fields(data, pos, <<"octet_string", "octet_string",
                                              "octet_string", "optional_unsigned32">>)} })

\* SML message types: GetList.Res 0x0701, GetProcParameter.Res 0x0601,
\* Attention 0x0901
SML_GET_LIST_RESPONSE == <<7, 1>>
SML_GET_PROC_PARAMETER_RESPONSE == <<6, 1>>
SML_ATTENTION == <<9, 1>>

\* SmlParser::parse_message_body; the value is the message type
parse_message_body(data, pos) ==
    The({ IF ~msg_type.ok THEN msg_type
          ELSE The({ IF ~body.ok THEN body ELSE SmlOk(msg_type.val, body.pos) :
                     body \in {
            CASE msg_type.val.bytes = SML_GET_LIST_RESPONSE ->
                    parse_get_list_response(data, msg_type.pos)
              [] msg_type.val.bytes = SML_GET_PROC_PARAMETER_RESPONSE ->
                    parse_fields(data, msg_type.pos,
                                 <<"octet_string", "octet_string", "optional_tree">>)
              [] msg_type.val.bytes = SML_ATTENTION ->
                    parse_fields(data, msg_type.pos,
                                 <<"octet_string", "octet_string", "octet_string",
                                   "optional_tree">>)
              [] OTHER -> skip_list(data, msg_type.pos) } }) :
          msg_type \in {parse_sized(data, pos, 2, FALSE)} })

\* SmlParser::parse_sml_message; the value is the message's transaction id
\* and type
parse_one_message(data, pos) ==
    The({
      IF ~transaction_id.ok THEN SmlErr(transaction_id.pos)
      ELSE The({
        IF ~head.ok THEN SmlErr(head.pos)
        ELSE The({
          IF ~message_body.ok THEN SmlErr(message_body.pos)
          ELSE The({
            IF ~tail.ok THEN SmlErr(tail.pos)
            ELSE [ok |-> TRUE, pos |-> tail.pos,
                  val |-> [transaction_id |-> transaction_id.val.bytes,
                           msg_type |-> message_body.val.bytes]] :
            tail \in {parse_fields(data, message_body.pos,
                                   <<"optional_unsigned16", "unsigned8">>)} }) :
          message_body \in {parse_message_body(data, head.pos)} }) :
        head \in {parse_fields(data, transaction_id.pos,
                               <<"unsigned8", "unsigned8">>)} }) :
      transaction_id \in {parse_octet_string(data, pos)} })

\* SmlParser::parse_sml_file: messages are parsed until the end of the data
\* or a byte 00; the first message that fails ends the loop
RECURSIVE parse_sml_messages(_, _, _)
parse_sml_messages(data, pos, messages) ==
    IF pos >= Len(data) THEN [messages |-> messages, pos |-> pos]
    ELSE IF At(data, pos) = 0 THEN [messages |-> messages, pos |-> pos]
    ELSE The({ IF message.ok
               THEN parse_sml_messages(data, message.pos,
                                       Append(messages, message.val))
               ELSE [messages |-> messages, pos |-> message.pos] :
               message \in {parse_one_message(data, pos)} })

parse_sml_file(data) ==
    The({ IF parsed.messages = <<>>
          THEN [kind |-> "Err", error |-> "ParseError", messages |-> <<>>,
                pos |-> parsed.pos]
          ELSE [kind |-> "Ok", error |-> "", messages |-> parsed.messages,
                pos |-> parsed.pos] :
          parsed \in {parse_sml_messages(bytes, 0, <<>>) : bytes \in {data}} })

\* The messages of a frame, well-formed as parse_sml_message reads them: a
\* transaction id, group number, abort-on-error, the message body, no CRC
\* and the end-of-message value.  "other" has a message type the parser
\* skips, "list" is a GetList.Res with one entry; "bad_length" has a two
\* byte group number and "bad_type" an octet string where the value list
\* must be.
SmlMessageKinds == {"other", "list", "bad_length", "bad_type"}
WellFormedKinds == {"other", "list"}

\* the transaction id of the i-th message of a frame
TransactionId(i) == <<160 + i>>

SmlMessageBytes(kind, i) ==
    LET opening == <<17>> \o TransactionId(i)
                   \o (IF kind = "bad_length" THEN <<98, 1, 1>> ELSE <<97, 1>>)
                   \o <<97, 0>>
        closing == <<0, 97, 0>>
        entry == <<17, 1, 0, 0, 97, 30, 81, 255, 98, 0, 42, 0>>
        list_tl == IF kind = "bad_type" THEN 17 ELSE 113
    IN  IF kind \in {"other", "bad_length"}
        THEN opening \o <<98, 1, 1, 112>> \o closing
        ELSE opening \o <<98, 7, 1, 0, 17, 5, 0, 0, list_tl>> \o entry
                     \o <<0, 0>> \o closing

RECURSIVE SmlContent(_, _)
SmlContent(kinds, i) ==
    IF i > Len(kinds) THEN <<>>
    ELSE SmlMessageBytes(kinds[i], i) \o SmlContent(kinds, i + 1)

\* SmlParser::new(sml_content).parse_sml_file()
CallParseSmlFile ==
    /\ fcall.fn = "parse_sml_file"
    /\ fret = NoReturn
    /\ fret' = parse_sml_file(SmlContent(fcall.messages, 1))
    /\ UNCHANGED fcall

InitSmlFile ==
    /\ fcall \in [fn : {"parse_sml_file"},
                  messages : UNION {[1..n -> SmlMessageKinds] : n \in 0..MaxMessages}]
    /\ fret = NoReturn

(***************************************************************************)
(* parse_sml_message (metering_sml/parser.rs 16-47): the frame boundaries  *)
(* in the received bytes and the parse of what lies between them.          *)
(***************************************************************************)
SML_START_SEQUENCE == <<27, 27, 27, 27>>
SML_END_SEQUENCE == <<27, 27, 27, 26>>

\* the smallest of a non-empty set of positions
First(positions) == CHOOSE i \in positions : \A j \in positions : i <= j

\* find_sml_start: for i in 0..data.len().saturating_sub(4)
find_sml_start(data) ==
    LET hits == {i \in 0..(Len(data) - 5) :
                    Slice(data, i, i + 4) = SML_START_SEQUENCE}
    IN  IF hits = {} THEN SmlErr(0) ELSE SmlOk(SmlNone, First(hits))

\* find_sml_end: for i in start_pos + 4..data.len().saturating_sub(3)
find_sml_end(data, start_pos) ==
    LET hits == {i \in (start_pos + 4)..(Len(data) - 4) :
                    Slice(data, i, i + 4) = SML_END_SEQUENCE}
    IN  IF hits = {} THEN SmlErr(0) ELSE SmlOk(SmlNone, First(hits))

SmlPanic == [kind |-> "Panic", error |-> "", messages |-> <<>>, pos |-> 0]
SmlInvalidMessage ==
    [kind |-> "Err", error |-> "InvalidMessage", messages |-> <<>>, pos |-> 0]

\* parse_sml_message: &data[start_pos + 8..end_pos] panics when the slice
\* starts behind its end
parse_sml_message(data) ==
    The({ IF ~start_pos.ok THEN SmlInvalidMessage
          ELSE The({ IF ~end_pos.ok THEN SmlInvalidMessage
                     ELSE IF start_pos.pos + 8 > end_pos.pos THEN SmlPanic
                     ELSE parse_sml_file(Slice(data, start_pos.pos + 8, end_pos.pos)) :
                     end_pos \in {find_sml_end(data, start_pos.pos)} }) :
          start_pos \in {find_sml_start(data)} })

\* the bytes a meter sends for a frame: start sequence, version, the
\* messages, end sequence with fill count and CRC
SmlFrame(kinds) ==
    SML_START_SEQUENCE \o <<1, 1, 1, 1>> \o SmlContent(kinds, 1)
        \o SML_END_SEQUENCE \o <<0, 18, 52>>

\* received bytes: every sequence of up to MaxSmlBytes bytes out of 1B, 1A
\* and 01, and the frames of up to one message
ReceivedBytes ==
    UNION {[1..n -> {27, 26, 1}] : n \in 0..MaxSmlBytes}
        \cup {SmlFrame(kinds) : kinds \in UNION {[1..n -> SmlMessageKinds] : n \in 0..1}}

CallParseSmlMessage ==
    /\ fcall.fn = "parse_sml_message"
    /\ fret = NoReturn
    /\ fret' = parse_sml_message(fcall.data)
    /\ UNCHANGED fcall

InitSmlMessage ==
    /\ fcall \in [fn : {"parse_sml_message"}, data : ReceivedBytes]
    /\ fret = NoReturn

(***************************************************************************)
(* ConfigHolder (config/mod.rs 254-382): the sections of the               *)
(* configuration, the dirty flag and the events handed to the broadcast    *)
(* channel.  The content of a section is one of two values.                *)
(***************************************************************************)
ConfigSections ==
    {"httpd", "mqtt", "db", "modbus", "tibber", "oms", "victron", "knx"}
SectionData == {"a", "b"}

\* enum ConfigBases
ConfigBasesVariants ==
    {"Httpd", "Mqtt", "Modbus", "Tibber", "Oms", "Victron", "Knx"}

\* ConfigHolder::get_copy
get_copy(holder, base) ==
    CASE base = "httpd" -> [kind |-> "Ok", variant |-> "Httpd", data |-> holder.config.httpd]
      [] base = "mqtt" -> [kind |-> "Ok", variant |-> "Mqtt", data |-> holder.config.mqtt]
      [] base = "modbus" -> [kind |-> "Ok", variant |-> "Modbus", data |-> holder.config.modbus]
      [] base = "tibber" -> [kind |-> "Ok", variant |-> "Tibber", data |-> holder.config.tibber]
      [] base = "oms" -> [kind |-> "Ok", variant |-> "Oms", data |-> holder.config.oms]
      [] base = "victron" -> [kind |-> "Ok", variant |-> "Victron", data |-> holder.config.victron]
      [] base = "knx" -> [kind |-> "Ok", variant |-> "Knx", data |-> holder.config.knx]
      [] OTHER -> [kind |-> "Err", variant |-> "", data |-> ""]

\* a mutant of update_config: the dirty flag is left as it is
update_config_keeps_dirty(holder, operation, new_data) ==
    LET field == CHOOSE s \in ConfigSections :
                     get_copy(holder, s).variant = new_data.variant
    IN  [config |-> [holder.config EXCEPT ![field] = new_data.data],
         dirty |-> holder.dirty,
         sent |-> Append(holder.sent, [operation |-> operation, base |-> field])]

\* ConfigHolder::update_config: the match over the variant of new_data,
\* self.dirty = true, callbacks.sender.send(ConfigChange { operation, base })
update_config(holder, operation, new_data) ==
    LET arm == CASE new_data.variant = "Httpd" -> [field |-> "httpd", base |-> "httpd"]
                 [] new_data.variant = "Mqtt" -> [field |-> "mqtt", base |-> "mqtt"]
                 [] new_data.variant = "Modbus" -> [field |-> "modbus", base |-> "modbus"]
                 [] new_data.variant = "Tibber" -> [field |-> "tibber", base |-> "tibber"]
                 [] new_data.variant = "Oms" -> [field |-> "oms", base |-> "oms"]
                 [] new_data.variant = "Victron" -> [field |-> "victron", base |-> "victron"]
                 [] new_data.variant = "Knx" -> [field |-> "knx", base |-> "knx"]
    IN  [config |-> [holder.config EXCEPT ![arm.field] = new_data.data],
         dirty |-> TRUE,
         sent |-> Append(holder.sent, [operation |-> operation, base |-> arm.base])]

\* CONFIG.write().unwrap().update_config(operation, new_data)
CallUpdateConfig ==
    /\ fcall.fn = "update_config"
    /\ fret = NoReturn
    /\ fret' = [kind |-> "updated",
                holder |-> update_config(fcall.holder, fcall.operation, fcall.new_data)]
    /\ UNCHANGED fcall

\* a later CONFIG.read().unwrap().get_copy(base)
CallGetCopy ==
    /\ fcall.fn = "update_config"
    /\ fret.kind = "updated"
    /\ \E base \in ConfigSections :
          fret' = [kind |-> "copied", holder |-> fret.holder, base |-> base,
                   copy |-> get_copy(fret.holder, base)]
    /\ UNCHANGED fcall

InitUpdateConfig ==
    /\ fcall \in [fn : {"update_config"},
                  holder : [config : [ConfigSections -> SectionData],
                            dirty : BOOLEAN,
                            sent : {<<>>}],
                  operation : Operations,
                  new_data : [variant : ConfigBasesVariants, data : SectionData]]
    /\ fret = NoReturn

(***************************************************************************)
(* The HTTP handlers add_modbus_hub and delete_modbus_hub (api/mod.rs      *)
(* 187-237).  HttpServer runs the handlers on one worker thread per core,  *)
(* so two requests can be inside their handlers at the same time.  A       *)
(* handler takes its copy of the Modbus section under the read lock of     *)
(* CONFIG, releases it, and writes under the write lock: these are its two *)
(* steps.  fcall holds the requests in flight, fret the section before the *)
(* first of them.                                                          *)
(***************************************************************************)
ApiHandlers == {"add_modbus_hub", "delete_modbus_hub"}

\* config.hubs.retain(|h| h.name != hub_name)
RECURSIVE Retain(_, _)
Retain(hubs, hub_name) ==
    IF hubs = <<>> THEN <<>>
    ELSE IF Head(hubs) = hub_name THEN Retain(Tail(hubs), hub_name)
    ELSE <<Head(hubs)>> \o Retain(Tail(hubs), hub_name)

\* let mut config = get_config_or_panic!("modbus", ConfigBases::Modbus);
ApiRead(r) ==
    /\ fcall[r].pc = "start"
    /\ fcall' = [fcall EXCEPT ![r].pc = "copied", ![r].copy = config]
    /\ UNCHANGED <<config, queue, lagged, wpc, wconfig, threads, alive, restarted,
                   wtx, fret>>

\* what the handler does with its copy: the response, the section it hands
\* to update_config and the operation, if it calls update_config at all
ApiDecision(request) ==
    IF request.fn = "add_modbus_hub"
    THEN IF \E i \in DOMAIN request.copy : request.copy[i] = request.name
         THEN [response |-> "BadRequest", writes |-> FALSE, hubs |-> <<>>,
               operation |-> "ADD"]
         ELSE [response |-> "Created", writes |-> TRUE,
               hubs |-> Append(request.copy, request.name), operation |-> "ADD"]
    ELSE IF Len(Retain(request.copy, request.name)) < Len(request.copy)
         THEN [response |-> "Ok", writes |-> TRUE,
               hubs |-> Retain(request.copy, request.name), operation |-> "DELETE"]
         ELSE [response |-> "NotFound", writes |-> FALSE, hubs |-> <<>>,
               operation |-> "DELETE"]

\* the rest of the handler: CONFIG.write().unwrap().update_config(..) and
\* the response
ApiWrite(r) ==
    /\ fcall[r].pc = "copied"
    /\ LET decision == ApiDecision(fcall[r])
       IN  /\ fcall' = [fcall EXCEPT ![r].pc = "done",
                                     ![r].response = decision.response]
           /\ IF decision.writes
              THEN /\ config' = decision.hubs
                   /\ BroadcastSend([operation |-> decision.operation,
                                     base |-> "modbus"])
              ELSE UNCHANGED <<config, queue, lagged>>
    /\ UNCHANGED <<wpc, wconfig, threads, alive, restarted, wtx, fret>>

ApiReadStep == \E r \in 1..MaxRequests : r \in DOMAIN fcall /\ ApiRead(r)
ApiWriteStep == \E r \in 1..MaxRequests : r \in DOMAIN fcall /\ ApiWrite(r)

ApiRequests ==
    [fn : ApiHandlers, name : Hubs, pc : {"start"}, copy : {<<>>},
     response : {"none"}]

InitApi ==
    /\ config \in HubConfigs
    /\ queue = <<>>
    /\ lagged = FALSE
    /\ wpc = "idle"
    /\ wconfig = <<>>
    /\ threads = <<>>
    /\ alive = [h \in Hubs |-> 0]
    /\ restarted = FALSE
    /\ wtx = <<>>
    /\ fcall \in UNION {[1..n -> ApiRequests] : n \in 1..MaxRequests}
    /\ fret = [kind |-> "section", hubs |-> config]

(***************************************************************************)
(* Specifications                                                          *)
(***************************************************************************)
\* a poller that is not started: the state the other specifications keep
IdlePollVars ==
    /\ intervals = <<>>
    /\ hub_inveral_sec = HUB_INTERVAL_MAX
    /\ waits_till_read = <<>>
    /\ cur_waits = <<>>
    /\ ppc = "idle"
    /\ dev = 1
    /\ retries = 0
    /\ attemptLog = <<>>
    /\ retryResult = "none"
    /\ reg = 1
    /\ meter_data = {}
    /\ failed = {}
    /\ sent = <<>>
    /\ ticks = 0
    /\ reads = <<>>
    /\ hub_proto = "TCP"

\* a worker that is not started
IdleWorkerVars ==
    /\ config = <<>>
    /\ queue = <<>>
    /\ lagged = FALSE
    /\ wpc = "idle"
    /\ wconfig = <<>>
    /\ threads = <<>>
    /\ alive = [h \in Hubs |-> 0]
    /\ restarted = FALSE
    /\ wtx = <<>>

\* the pipeline tasks not started
IdlePipeVars ==
    /\ tx = <<>>
    /\ req = <<>>
    /\ dch = [w \in Subscribers |-> <<>>]
    /\ calls = [t \in {} |-> <<>>]
    /\ lock = "free"
    /\ subscribed = {}
    /\ bpc = "idle"
    /\ bmsg = NoTransmission
    /\ epc = "idle"
    /\ emsg = NoInbound
    /\ eidx = 1
    /\ edelivered = <<>>
    /\ opc = "idle"
    /\ omsg = NoTransmission
    /\ cpc = "idle"
    /\ mpc = "idle"
    /\ aborted = {}
    /\ inputs = {}
    /\ budget = 0
    /\ lastPub = [p \in Subscribers |-> [ord |-> -1, stage |-> "none"]]

\* no function call under way
IdleFnVars ==
    /\ fcall = [fn |-> "none"]
    /\ fret = NoReturn

InitPoll == InitPollVars /\ IdleWorkerVars /\ IdlePipeVars /\ IdleFnVars

NextPoll ==
    \/ PollSetup /\ UNCHANGED <<workerVars, pipeVars, fnVars>>
    \/ PollTick /\ UNCHANGED <<workerVars, pipeVars, fnVars>>
    \/ PollDevice /\ UNCHANGED <<workerVars, pipeVars, fnVars>>
    \/ ConnectFails /\ UNCHANGED <<workerVars, pipeVars, fnVars>>
    \/ ConnectOk /\ UNCHANGED <<workerVars, pipeVars, fnVars>>
    \/ RegisterStep /\ UNCHANGED <<workerVars, pipeVars, fnVars>>
    \/ RegisterSkipTemplate /\ UNCHANGED <<workerVars, pipeVars, fnVars>>
    \/ FinishAttempt /\ UNCHANGED <<workerVars, pipeVars, fnVars>>
    \/ PollReturned /\ UNCHANGED <<workerVars, pipeVars, fnVars>>

SpecPoll == InitPoll /\ [][NextPoll]_vars

InitWorker == InitWorkerVars /\ IdlePollVars /\ IdlePipeVars /\ IdleFnVars

NextWorker ==
    \/ UpdateConfig /\ UNCHANGED <<pollVars, pipeVars, fnVars>>
    \/ WorkerStart /\ UNCHANGED <<pollVars, pipeVars, fnVars>>
    \/ WorkerParkedRecv /\ UNCHANGED <<pollVars, pipeVars, fnVars>>
    \/ WorkerStartupWait /\ UNCHANGED <<pollVars, pipeVars, fnVars>>
    \/ WorkerSpawn /\ UNCHANGED <<pollVars, pipeVars, fnVars>>
    \/ WorkerSteadyRecv /\ UNCHANGED <<pollVars, pipeVars, fnVars>>

SpecWorker == InitWorker /\ [][NextWorker]_vars

\* worker, bridge and event loop under an unbounded stream of telegrams
InitPipe ==
    /\ InitPipeVars
    /\ cpc = "idle"
    /\ inputs = PipeInputs
    /\ budget = -1
    /\ IdlePollVars
    /\ IdleWorkerVars
    /\ IdleFnVars

NextPipe ==
    \/ BridgeRecv /\ UNCHANGED <<pollVars, workerVars, fnVars>>
    \/ BridgePublish /\ UNCHANGED <<pollVars, workerVars, fnVars>>
    \/ BridgeSubscribe /\ UNCHANGED <<pollVars, workerVars, fnVars>>
    \/ BridgeInsert /\ UNCHANGED <<pollVars, workerVars, fnVars>>
    \/ EventLoopRequest /\ UNCHANGED <<pollVars, workerVars, fnVars>>
    \/ EventLoopPublish /\ UNCHANGED <<pollVars, workerVars, fnVars>>
    \/ CallbacksSend /\ UNCHANGED <<pollVars, workerVars, fnVars>>
    \/ OmsSubscribe /\ UNCHANGED <<pollVars, workerVars, fnVars>>
    \/ OmsRecv /\ UNCHANGED <<pollVars, workerVars, fnVars>>
    \/ OmsSend /\ UNCHANGED <<pollVars, workerVars, fnVars>>

SpecPipe == InitPipe /\ [][NextPipe]_vars

MainStep == MainTick /\ UNCHANGED <<pollVars, workerVars, fnVars>>

\* the OMS worker, bridge, event loop and main for every telegram of the
\* model
InitOms ==
    /\ InitPipeVars
    /\ cpc = "idle"
    /\ inputs = OmsInputs
    /\ budget = MaxInbound
    /\ IdlePollVars
    /\ IdleWorkerVars
    /\ IdleFnVars

NextOms ==
    \/ BridgeRecv /\ UNCHANGED <<pollVars, workerVars, fnVars>>
    \/ BridgePublish /\ UNCHANGED <<pollVars, workerVars, fnVars>>
    \/ BridgeSubscribe /\ UNCHANGED <<pollVars, workerVars, fnVars>>
    \/ BridgeInsert /\ UNCHANGED <<pollVars, workerVars, fnVars>>
    \/ EventLoopRequest /\ UNCHANGED <<pollVars, workerVars, fnVars>>
    \/ EventLoopPublish /\ UNCHANGED <<pollVars, workerVars, fnVars>>
    \/ CallbacksSend /\ UNCHANGED <<pollVars, workerVars, fnVars>>
    \/ OmsSubscribe /\ UNCHANGED <<pollVars, workerVars, fnVars>>
    \/ OmsRecv /\ UNCHANGED <<pollVars, workerVars, fnVars>>
    \/ OmsSend /\ UNCHANGED <<pollVars, workerVars, fnVars>>
    \/ MainStep

SpecOms == InitOms /\ [][NextOms]_vars

\* all pipeline tasks, for a bounded number of inbound messages
InitBridge ==
    /\ InitPipeVars
    /\ cpc = "subscribe"
    /\ inputs = BridgeInputs
    /\ budget = MaxInbound
    /\ IdlePollVars
    /\ IdleWorkerVars
    /\ IdleFnVars

NextBridge ==
    \/ BridgeRecv /\ UNCHANGED <<pollVars, workerVars, fnVars>>
    \/ BridgePublish /\ UNCHANGED <<pollVars, workerVars, fnVars>>
    \/ BridgeSubscribe /\ UNCHANGED <<pollVars, workerVars, fnVars>>
    \/ BridgeInsert /\ UNCHANGED <<pollVars, workerVars, fnVars>>
    \/ EventLoopRequest /\ UNCHANGED <<pollVars, workerVars, fnVars>>
    \/ EventLoopPublish /\ UNCHANGED <<pollVars, workerVars, fnVars>>
    \/ CallbacksSend /\ UNCHANGED <<pollVars, workerVars, fnVars>>
    \/ OmsSubscribe /\ UNCHANGED <<pollVars, workerVars, fnVars>>
    \/ OmsRecv /\ UNCHANGED <<pollVars, workerVars, fnVars>>
    \/ OmsSend /\ UNCHANGED <<pollVars, workerVars, fnVars>>
    \/ CmdSubscribe /\ UNCHANGED <<pollVars, workerVars, fnVars>>
    \/ CmdAnnounce /\ UNCHANGED <<pollVars, workerVars, fnVars>>
    \/ CmdRecv /\ UNCHANGED <<pollVars, workerVars, fnVars>>
    \/ MainStep

SpecBridge == InitBridge /\ [][NextBridge]_vars

\* main's sleep of 10 s always ends: its supervision pass is weakly fair
SpecBridgeFair == SpecBridge /\ WF_vars(MainStep)

\* one call of the value mapping, for every input of the model
NextMappings == ApplyMappings /\ UNCHANGED <<pollVars, workerVars, pipeVars>>

StartMappings == InitMappings /\ IdlePollVars /\ IdleWorkerVars /\ IdlePipeVars

SpecMappings == StartMappings /\ [][NextMappings]_vars

\* one call of parse_oms_telegram, for every telegram of the model
NextParseOms == CallParseOms /\ UNCHANGED <<pollVars, workerVars, pipeVars>>

StartParseOms == InitParseOms /\ IdlePollVars /\ IdleWorkerVars /\ IdlePipeVars

SpecParseOms == StartParseOms /\ [][NextParseOms]_vars

\* one call of verifiy_crc, for every frame of the model
NextCrc == CallVerifyCrc /\ UNCHANGED <<pollVars, workerVars, pipeVars>>

StartCrc == InitCrc /\ IdlePollVars /\ IdleWorkerVars /\ IdlePipeVars

SpecCrc == StartCrc /\ [][NextCrc]_vars

\* one call of parse_payload, for every payload of the model
NextPayload == CallParsePayload /\ UNCHANGED <<pollVars, workerVars, pipeVars>>

StartPayload == InitPayload /\ IdlePollVars /\ IdleWorkerVars /\ IdlePipeVars

SpecPayload == StartPayload /\ [][NextPayload]_vars

\* one call of parse_iec62056_telegram, for every telegram of the model
NextIec == CallParseIec /\ UNCHANGED <<pollVars, workerVars, pipeVars>>

StartIec == InitIec /\ IdlePollVars /\ IdleWorkerVars /\ IdlePipeVars

SpecIec == StartIec /\ [][NextIec]_vars

\* the worker, the config-change channel and the pollers' records
NextWorkerTx ==
    \/ NextWorker
    \/ PollerStep /\ UNCHANGED <<pollVars, pipeVars, fnVars>>

SpecWorkerTx == InitWorker /\ [][NextWorkerTx]_vars

\* one call of parse_octet_string, for every TL byte
NextOctetString ==
    CallParseOctetString /\ UNCHANGED <<pollVars, workerVars, pipeVars>>

StartOctetString ==
    InitOctetString /\ IdlePollVars /\ IdleWorkerVars /\ IdlePipeVars

SpecOctetString == StartOctetString /\ [][NextOctetString]_vars

\* one call of parse_oms_telegram per telegram put together from its parts
NextTelegramOf ==
    CallParseTelegramOf /\ UNCHANGED <<pollVars, workerVars, pipeVars>>

StartTelegramOf ==
    InitTelegramOf /\ IdlePollVars /\ IdleWorkerVars /\ IdlePipeVars

SpecTelegramOf == StartTelegramOf /\ [][NextTelegramOf]_vars

\* one call of parse_sml_file per frame of the model
NextSmlFile == CallParseSmlFile /\ UNCHANGED <<pollVars, workerVars, pipeVars>>

StartSmlFile == InitSmlFile /\ IdlePollVars /\ IdleWorkerVars /\ IdlePipeVars

SpecSmlFile == StartSmlFile /\ [][NextSmlFile]_vars

\* one call of parse_sml_message per sequence of received bytes
NextSmlMessage ==
    CallParseSmlMessage /\ UNCHANGED <<pollVars, workerVars, pipeVars>>

StartSmlMessage ==
    InitSmlMessage /\ IdlePollVars /\ IdleWorkerVars /\ IdlePipeVars

SpecSmlMessage == StartSmlMessage /\ [][NextSmlMessage]_vars

\* the worker when the configuration is edited only while the worker is
\* parked, one edit at a time, and during its start-up wait: every event
\* the worker finds in the channel after the wait was broadcast during it
UpdateWhileParked == wpc = "parked" /\ queue = <<>> /\ UpdateConfig

UpdateDuringWait == wpc = "startup_wait" /\ UpdateConfig

NextWorkerWait ==
    \/ UpdateWhileParked /\ UNCHANGED <<pollVars, pipeVars, fnVars>>
    \/ UpdateDuringWait /\ UNCHANGED <<pollVars, pipeVars, fnVars>>
    \/ WorkerStart /\ UNCHANGED <<pollVars, pipeVars, fnVars>>
    \/ WorkerParkedRecv /\ UNCHANGED <<pollVars, pipeVars, fnVars>>
    \/ WorkerStartupWait /\ UNCHANGED <<pollVars, pipeVars, fnVars>>
    \/ WorkerSpawn /\ UNCHANGED <<pollVars, pipeVars, fnVars>>
    \/ WorkerSteadyRecv /\ UNCHANGED <<pollVars, pipeVars, fnVars>>

SpecWorkerWait == InitWorker /\ [][NextWorkerWait]_vars

\* one call of update_config on every configuration, and a get_copy after it
NextUpdateConfig ==
    \/ CallUpdateConfig /\ UNCHANGED <<pollVars, workerVars, pipeVars>>
    \/ CallGetCopy /\ UNCHANGED <<pollVars, workerVars, pipeVars>>

StartUpdateConfig ==
    InitUpdateConfig /\ IdlePollVars /\ IdleWorkerVars /\ IdlePipeVars

SpecUpdateConfig == StartUpdateConfig /\ [][NextUpdateConfig]_vars

\* concurrent requests to add and delete Modbus hubs
NextApi ==
    \/ ApiReadStep /\ UNCHANGED <<pollVars, pipeVars>>
    \/ ApiWriteStep /\ UNCHANGED <<pollVars, pipeVars>>

StartApi == InitApi /\ IdlePollVars /\ IdlePipeVars

SpecApi == StartApi /\ [][NextApi]_vars

(***************************************************************************)
(* Claims about the hub poller (SpecPoll)                                  *)
(***************************************************************************)
AllErr(log) == \A i \in DOMAIN log : log[i] = "Err"

FailedNames == {f.name : f \in failed}

\* an attempt of read_device_registers has just ended
AttemptEnded == ppc \in {"returned", "connect"} /\ attemptLog # <<>>

C5_CadenceRoundsUp ==
    ppc # "setup" =>
        /\ hub_inveral_sec = HubInterval(intervals, HUB_INTERVAL_MAX)
        /\ \A d \in DOMAIN intervals :
              /\ hub_inveral_sec <= intervals[d]
              /\ hub_inveral_sec <= HUB_INTERVAL_MAX
              /\ waits_till_read[d] = CeilDiv(intervals[d], hub_inveral_sec)
              /\ ppc = "sleep" => reads[d] = ticks \div waits_till_read[d]

\* C6 (as claimed): when the connection succeeds and the request for exactly
\* one physical register fails, at write, read or response parsing, the
\* attempt still sends one Metering record that holds every other register
\* and has no entry for the failed one.
C6_AnyRegisterFailureIsOmitted ==
    (AttemptEnded /\ Cardinality(failed) = 1) =>
        /\ Len(sent) = 1
        /\ sent[1].values = RegisterNames \ FailedNames

\* C6 (amended): when the connection succeeds and the request for exactly one
\* physical register fails at response parsing (parse_u16 returns an error),
\* the attempt still reads the remaining registers and sends one Metering
\* record that holds every other register and has no entry for the failed
\* one; a failure at write or read ends the attempt with an error and no
\* record.
C6_ParseFailureIsOmitted ==
    /\ (AttemptEnded /\ Cardinality(failed) = 1
            /\ \A f \in failed : f.at = "parse_err") =>
          /\ Len(sent) = 1
          /\ sent[1].values = RegisterNames \ FailedNames
          /\ attemptLog[Len(attemptLog)] = "Ok"
    /\ (AttemptEnded /\ \E f \in failed : f.at \in IoFailures) =>
          /\ sent = <<>>
          /\ attemptLog[Len(attemptLog)] = "Err"

\* C6 witness: an attempt that ended with one register failed at parsing and
\* its record sent.
C6_Witness ==
    /\ ppc = "returned"
    /\ Cardinality(failed) = 1
    /\ \A f \in failed : f.at = "parse_err"
    /\ Len(sent) = 1

\* C12 (as claimed): a hub whose configured protocol is RTU (serial) is not
\* polled: its poller never has a TCP connection open and never sends a
\* Metering record.
C12_RtuHubNeverPolled ==
    hub_proto = "RTU" => (ppc # "registers" /\ sent = <<>>)

\* C28: in the hub poll loop every device with read_interval >= 1 has
\* waits_till_read >= 1, and after each tick's pass over the devices
\* 0 <= cur_waits < waits_till_read; the counter never runs past
\* waits_till_read, so the equality test that triggers a read is not missed.
C28_CounterBelowWaitsTillRead ==
    ppc # "setup" =>
        \A d \in DOMAIN intervals : intervals[d] >= 1 =>
            /\ waits_till_read[d] >= 1
            /\ cur_waits[d] >= 0
            /\ cur_waits[d] <= waits_till_read[d]
            /\ ppc = "sleep" => cur_waits[d] < waits_till_read[d]

\* C28 witness: after the second tick's pass a device read every second tick
\* has been read once and counts from 0 again, while a device of the same
\* hub read every tick has been read twice
C28_Witness ==
    /\ ppc = "sleep"
    /\ ticks = 2
    /\ \E d \in DOMAIN intervals :
          /\ waits_till_read[d] = 2
          /\ cur_waits[d] = 0
          /\ reads[d] = 1
    /\ \E d \in DOMAIN intervals : waits_till_read[d] = 1 /\ reads[d] = 2

\* C26: for each device and each tick in which it is read at most one
\* Metering record is put on the transmission channel: an attempt of
\* read_device_registers that returns an error has sent nothing, a record is
\* sent only at the end of an attempt that went through all physical
\* registers and all templates, and retries never produce a second record.
C26_AtMostOneRecordPerRead ==
    [][ /\ attemptLog' = Append(attemptLog, "Err") => sent' = <<>>
        /\ (sent' # sent /\ sent' # <<>>) =>
              /\ sent = <<>>
              /\ Len(sent') = 1
              /\ sent'[1].device = dev
              /\ reg > Len(DeviceRegisters)
              /\ TemplateNames \subseteq sent'[1].values
              /\ AllErr(attemptLog)
              /\ attemptLog' = Append(attemptLog, "Ok")
              /\ ppc' = "returned"
        /\ (attemptLog # <<>> /\ attemptLog[Len(attemptLog)] = "Ok") =>
              attemptLog' \in {attemptLog, <<>>}
      ]_vars

\* C26 witness: in the second tick a read has sent its one record in the
\* third attempt, after two attempts that returned an error
C26_Witness ==
    /\ ticks = 2
    /\ ppc = "returned"
    /\ attemptLog = <<"Err", "Err", "Ok">>
    /\ Len(sent) = 1

(***************************************************************************)
(* Claims about the Modbus worker (SpecWorker)                             *)
(***************************************************************************)
\* handles of hub h in a list of handles
HandlesOf(held, h) == Cardinality({i \in DOMAIN held : held[i] = h})

\* the step is a recv of the worker that returned the event at the head
ReceivedEvent == ~lagged /\ queue # <<>> /\ queue' = Tail(queue)

C9_OverflowNeverEndsWorker ==
    wpc \in {"idle", "start", "parked", "startup_wait", "spawn", "steady"}

\* C11 (as claimed): a parked Modbus worker leaves the parked state on every
\* config-change event of base "modbus", whatever its operation, and on no
\* event of another base.
C11_AnyModbusEventWakes ==
    [][(wpc = "parked" /\ ReceivedEvent) =>
          (wpc' = "startup_wait" <=> Head(queue).base = "modbus")]_vars

\* C11 (amended): a worker started with no configured hub parks; the parked
\* worker goes on to its start-up wait exactly when it receives an event of
\* operation ADD and base "modbus"; any other event it receives (CHANGE or
\* DELETE of base "modbus", or any event of another base) leaves it parked
\* and leaves its pollers and its snapshot untouched.
C11_OnlyModbusAddWakes ==
    [][ /\ (wpc = "start" /\ wpc' # "start") =>
              (wpc' = "parked" <=> Len(wconfig) = 0)
        /\ (wpc = "parked" /\ ReceivedEvent) =>
              /\ wpc' = IF Head(queue).operation = "ADD" /\ Head(queue).base = "modbus"
                        THEN "startup_wait" ELSE "parked"
              /\ UNCHANGED <<wconfig, threads, alive>>
        /\ (wpc = "parked" /\ wpc' = "startup_wait") =>
              (ReceivedEvent /\ Head(queue) = [operation |-> "ADD", base |-> "modbus"])
      ]_vars

\* C11 witness: the worker was started without hubs, was woken and is in
\* its start-up wait
C11_Witness ==
    /\ wpc = "startup_wait"
    /\ wconfig = <<>>

\* AutoDiscovery messages of device d of hub h on the channel
DiscoveriesOf(h, d) ==
    {k \in DOMAIN wtx : /\ wtx[k].type = "AutoDiscovery"
                        /\ wtx[k].hub = h
                        /\ wtx[k].device = d}

C24_EditsDuringWaitAbsorbed ==
    [][ /\ (wpc = "spawn" /\ wpc' = "steady") => wconfig' = config
        /\ ~(/\ wpc = "steady"
             /\ ReceivedEvent
             /\ Head(queue).base = "modbus"
             /\ wpc' = "spawn")
      ]_vars

\* the configuration read after the wait holds every edit made during it
C24_SnapshotHoldsEdits ==
    [][(wpc = "spawn" /\ wpc' = "steady") => wconfig' = config]_vars

\* C27: whenever the Modbus worker waits for config changes in its steady
\* state, its task list holds exactly one poller handle per hub of the
\* snapshot it last read, and every poller created under an earlier snapshot
\* has been aborted and removed: no hub has two pollers that were not
\* aborted, and a hub that left the configuration has none.
C27_OnePollerPerHubOfSnapshot ==
    wpc = "steady" =>
        /\ threads = wconfig
        /\ \A h \in Hubs :
              /\ HandlesOf(threads, h) = (IF \E i \in DOMAIN wconfig : wconfig[i] = h
                                          THEN 1 ELSE 0)
              /\ alive[h] = HandlesOf(threads, h)
              /\ alive[h] <= 1

\* C27 witness: after a restart the worker waits with the one poller of a
\* snapshot of one hub, the other hub having no poller
C27_Witness ==
    /\ wpc = "steady"
    /\ restarted
    /\ Len(wconfig) = 1
    /\ \E h \in Hubs : alive[h] = 0
    /\ \E h \in Hubs : alive[h] = 1

(***************************************************************************)
(* Claims about the MQTT pipeline (SpecPipe, SpecOms, SpecBridge)          *)
(***************************************************************************)
\* the bridge waits in client.publish or client.subscribe for room in the
\* request queue
BridgeWaits ==
    /\ bpc \in {"publish_raw", "publish_devs", "publish", "subscribe"}
    /\ ClientOpen
    /\ Len(req) = REQUEST_CAPACITY

\* C1: back-pressure never blocks the bridge for ever: there is no
\* reachable state in which the bridge waits for the request queue and no
\* task of the pipeline can take a step, so that a non-empty transmission
\* channel always has its head dequeued in the end.
C1_BridgeNeverBlockedForever ==
    ~(BridgeWaits /\ tx # <<>> /\ ~ENABLED NextPipe)

\* C3: no payload delivered on oms_input ends the OMS worker: after every
\* payload the worker task is waiting for the next one or sending the one
\* record it parsed.
C3_NoInputEndsWorker ==
    opc # "panicked"

\* C7: every topic of the registry is a subscribed topic prefixed with
\* "energy2mqtt/" and maps to a non-empty list; an inbound message whose
\* handling has ended was put once on each channel registered under its
\* topic, in registration order, and on no other channel (on none for a
\* topic that is no key); while it is handled it was put on the channels
\* before the one the loop is at.
C7_DeliveredToRegisteredChannels ==
    /\ \A t \in DOMAIN calls :
          /\ calls[t] # <<>>
          /\ \E w \in Subscribers : t = Prefixed(SubscribedTopic(w))
    /\ epc \in {"poll", "panicked"} => edelivered = emsg.registered
    /\ epc = "send" => edelivered = SubSeq(emsg.registered, 1, eidx - 1)

\* C8: the publishes the bridge issues for one producer follow the order
\* of the producer's messages on the transmission channel, and for one
\* Metering record the publish on energy2mqtt/raw comes first and the one
\* on energy2mqtt/devs/<protocol>/<meter_name> directly after it.
C8_PublishesInChannelOrder ==
    [][\A p \in Subscribers :
          lastPub'[p] # lastPub[p] =>
              IF lastPub'[p].stage = "publish_devs"
              THEN lastPub[p] = [ord |-> lastPub'[p].ord, stage |-> "publish_raw"]
              ELSE lastPub[p].ord < lastPub'[p].ord]_vars

\* both publishes of one record are out and a later record of the same
\* producer waits in the transmission channel
C8_Witness ==
    /\ lastPub["oms"].stage = "publish_devs"
    /\ \E i \in DOMAIN tx :
          /\ tx[i].from = "oms"
          /\ tx[i].type = "Metering"
          /\ tx[i].ord > lastPub["oms"].ord

\* the command handler takes a payload from its delivery channel
CmdReceives == Len(dch'["cmd"]) < Len(dch["cmd"])

\* C10: on the payload "restart" the command handler's task finishes, and
\* main's supervision loop then aborts every top-level task and returns;
\* on any other payload the handler goes on waiting and no task is aborted.
C10_RestartEndsProcess ==
    /\ [][CmdReceives =>
            IF Head(dch["cmd"]).body = "restart"
            THEN cpc' = "done"
            ELSE cpc' = "recv" /\ mpc' = "running" /\ aborted' = {}
                 /\ bpc' # "aborted" /\ opc' # "aborted"]_vars
    /\ (cpc = "done") ~> (mpc = "returned" /\ aborted = TopLevelTasks)

C10_Witness ==
    /\ cpc = "done"
    /\ mpc = "returned"
    /\ aborted = TopLevelTasks
    /\ bpc = "aborted"

\* C19 (as claimed): after its (re-)spawn each protocol worker, the OMS
\* worker among them, sends one retained Publish on
\* energy2mqtt/mgt/<protocol>/count: when the OMS worker has finished its
\* start-up and waits for telegrams, that Publish is on the transmission
\* channel.
C19_EveryWorkerPublishesCount ==
    [][(opc = "subscribe" /\ opc' = "recv") =>
          \E i \in DOMAIN tx' :
             /\ tx'[i].type = "Publish"
             /\ tx'[i].from = "oms"
             /\ tx'[i].topic = <<"energy2mqtt", "mgt", "oms", "count">>]_vars

(***************************************************************************)
(* Claims about the value mappings (SpecMappings)                          *)
(***************************************************************************)
\* the claim's reading of the match: mapping.data is compared with the
\* decimal digits of the scaled value, "1" for 1
ClaimedMappedValue(raw, scaler, mappings) ==
    LET v == ScaledRound(raw, scaler)
        exact == FirstMapping(mappings, 1, DecimalString(v))
        wildcard == FirstMapping(mappings, 1, <<"_">>)
    IN  IF exact # 0 THEN mappings[exact].mapping
        ELSE IF wildcard # 0 THEN mappings[wildcard].mapping
        ELSE JsonNumber(v)

\* C13 (as claimed): the value inserted for a register is the mapping of the
\* first entry whose data is the decimal representation of the scaled value,
\* else that of the entry "_", else the number; with [{1 -> on}, {_ ->
\* unknown}] a raw 1 gives "on" and a raw 5 gives "unknown".
C13_FirstExactElseWildcardElseNumber ==
    fret # NoReturn =>
        fret = ClaimedMappedValue(fcall.raw, fcall.scaler, fcall.mappings)

(***************************************************************************)
(* Claims about parse_oms_telegram (SpecParseOms)                          *)
(***************************************************************************)
\* the telegram of the call as the layers after the CRC check see it
CalledTelegram ==
    IF fcall.with_crc
    THEN verifiy_crc(OmsTelegrams[fcall.telegram], fcall.overflow_checks).payload
    ELSE OmsTelegrams[fcall.telegram]

\* C14 (as claimed): every record parse_oms_telegram returns carries the
\* name of the configured device whose id is the telegram's DIN address, and
\* a telegram whose security mode is not 5 returns no record.
C14_RecordNamesConfiguredDevice ==
    (fcall.fn = "parse_oms_telegram" /\ fret.kind = "Ok") =>
        /\ get_meter_config(DinAddr(CalledTelegram)) # <<>>
        /\ fret.meter_name = get_meter_config(DinAddr(CalledTelegram))[1].name
        /\ At(CalledTelegram, 14) % 32 = 5

(***************************************************************************)
(* Claims about verifiy_crc (SpecCrc)                                      *)
(***************************************************************************)
\* C15 (as claimed): for a frame built as a 10 byte block, 16 byte blocks
\* and an optional shorter last block, each with its correct CRC,
\* verifiy_crc returns the blocks' bodies in order (two bytes shorter per
\* block than the frame, and the frame again once the CRCs are re-appended);
\* with any CRC differing it returns CRCMissMatch.
C15_StripsCrcOfWellFormedFrame ==
    (fcall.fn = "verifiy_crc" /\ fret # NoReturn) =>
        IF fcall.block = 0
        THEN /\ fret.kind = "Ok"
             /\ fret.payload = FrameBody(fcall.len)
             /\ Len(fret.payload) =
                   Len(BuiltFrame(fcall.len, 0, 0)) - 2 * BlockCount(fcall.len)
             /\ AddCrc(fret.payload, TRUE) = BuiltFrame(fcall.len, 0, 0)
        ELSE fret = OmsErr("CRCMissMatch")

(***************************************************************************)
(* Claims about parse_payload (SpecPayload)                                *)
(***************************************************************************)
\* the record of the payload of a call: its DIF, VIF and value
CalledDif == At(fcall.payload, 0)
CalledVif == At(fcall.payload, 1)
CalledRaw == LittleEndian(fcall.payload, 2, DifReads(CalledDif))
SecondsPer(vif) == <<1, 60, 3600, 86400>>[(vif % 4) + 1]

\* C16 (as claimed): for an on-time VIF (0x20..0x23) or an operating-time
\* VIF (0x24..0x27) after an integer DIF, parse_payload emits the integer
\* times 1, 60, 3600 or 86400 by the VIF's low two bits under on_time or
\* operation_time with the unit "s"; 02 22 02 00 gives on_time = 7200.
C16_TimeVifsGiveSeconds ==
    (fcall.fn = "parse_payload" /\ fret # NoReturn /\ CalledVif \in 32..39) =>
        LET key == FieldKey(IF CalledVif <= 35 THEN "on_time" ELSE "operation_time")
        IN  /\ fret.kind = "Ok"
            /\ DOMAIN fret.map = {key}
            /\ fret.map[key] = [value |-> JsonInt(CalledRaw * SecondsPer(CalledVif)),
                                unit |-> "s"]

(***************************************************************************)
(* Claims about the IEC 62056-21 parser (SpecIec)                          *)
(***************************************************************************)
\* the data lines of the call that parse, as parse_obis_line returns them
ParsedLines ==
    {parse_obis_line(fcall.data[i]) : i \in {j \in DOMAIN fcall.data :
         Trim(fcall.data[j]) # <<>> /\ parse_obis_line(fcall.data[j]).kind = "Ok"}}

IecReturned == fcall.fn = "parse_iec62056_telegram" /\ fret # NoReturn

\* C17 (as claimed): every data line that parses gives the record two
\* entries, <obis> with the raw value string and <obis>_unit with the unit,
\* the unit entry also when the line has no '*unit' suffix.
C17_EveryLineGivesValueAndUnit ==
    IecReturned =>
        /\ fret.kind = "Ok"
        /\ \A d \in ParsedLines :
              /\ d.code \in DOMAIN fret.values
              /\ UnitKey(d.code) \in DOMAIN fret.values

\* C17 (amended): every data line that parses gives the record the entry
\* <obis>, holding the text between the parentheses of the last such line
\* of that code; the entry <obis>_unit is there exactly when a line of that
\* code has a non-empty text after the last '*' of its value, and holds the
\* unit of the last such line.
C17_UnitEntryOnlyWithUnit ==
    IecReturned =>
        /\ fret.kind = "Ok"
        /\ \A d \in ParsedLines :
              /\ d.code \in DOMAIN fret.values
              /\ \E e \in ParsedLines : e.code = d.code /\ fret.values[d.code] = e.value
              /\ UnitKey(d.code) \in DOMAIN fret.values
                    <=> \E e \in ParsedLines : e.code = d.code /\ e.unit.some
              /\ UnitKey(d.code) \in DOMAIN fret.values =>
                    \E e \in ParsedLines :
                       /\ e.code = d.code /\ e.unit.some
                       /\ e.unit.text # <<>>
                       /\ fret.values[UnitKey(d.code)] = e.unit.text
                       /\ e.unit.text =
                             Slice(e.value, RFind(e.value, 42) + 1, Len(e.value))
        /\ \A i \in DOMAIN fcall.data :
              (Len(fcall.data) = 1 /\ parse_obis_line(fcall.data[i]).kind = "Ok") =>
                  fret.values[parse_obis_line(fcall.data[i]).code] =
                      Slice(Trim(fcall.data[i]), Find(Trim(fcall.data[i]), 40) + 1,
                            RFind(Trim(fcall.data[i]), 41))

\* C17 witness: a telegram with a data line without unit has been parsed
C17_Witness ==
    /\ IecReturned
    /\ \E d \in ParsedLines : ~d.unit.some /\ UnitKey(d.code) \notin DOMAIN fret.values
    /\ \E d \in ParsedLines : d.unit.some /\ UnitKey(d.code) \in DOMAIN fret.values

\* C18 (as claimed): a telegram with a byte after '!' is accepted only if
\* the byte is the XOR of the bytes after '/' up to the '!'; with another
\* byte it is rejected with ChecksumFailed; without the byte it is accepted.
C18_ChecksumDecidesAcceptance ==
    IecReturned =>
        IF fcall.checksum = "wrong" THEN fret = IecErr("ChecksumFailed")
        ELSE fret.kind = "Ok"

(***************************************************************************)
(* Claims about the order of parse_oms_telegram's checks (SpecTelegramOf)  *)
(***************************************************************************)
\* the error of the first check that fails, in the order CRC blocks, length
\* bounds, C field, device lookup, CI field, security mode, decryption
\* prefix; "" where no check of these fails or the CI is a long header's
FirstFailingCheck(c) ==
    LET body == TelegramBodyOf(c)
    IN  IF c.block # 0 THEN "CRCMissMatch"
        ELSE IF c.long_l THEN "TelegramTooShort"
        ELSE IF c.c_field # 68 THEN "UnsupportedTelegramType"
        ELSE IF get_meter_config(DinAddr(body)) = <<>> THEN "SensorNotConfigured"
        ELSE IF c.ci \in tpl_no_header_ids THEN "WiredProtocolNotSupported"
        ELSE IF c.ci \notin tpl_short_header_ids \cup tpl_long_header_ids
        THEN "SecurityCiTypeNotSupported"
        ELSE IF c.ci \in tpl_long_header_ids \/ c.rest = "none" THEN ""
        ELSE IF At(body, 14) % 32 \notin {5, 7} THEN "SecurityModeNotSupported"
        ELSE IF c.rest = "wrong_key" THEN "DecryptionFailed"
        ELSE ""

\* C22: parse_oms_telegram returns the error of the first check that fails
\* in the order CRC blocks, length bounds, C field, device lookup, CI field,
\* security mode, decryption prefix: CRCMissMatch for a damaged CRC whatever
\* the header, UnsupportedTelegramType for a C field other than 0x44 even
\* when the device is not configured, SensorNotConfigured for an
\* unconfigured device whatever the CI field, WiredProtocolNotSupported for
\* a CI of 0x66, 0x70 or 0x71 and SecurityCiTypeNotSupported for a CI
\* outside the short, long and wired sets.
C22_FirstFailingCheckDecides ==
    (/\ fcall.fn = "parse_oms_telegram of parts"
     /\ fret # NoReturn
     /\ FirstFailingCheck(fcall) # "")
    => fret = OmsErr(FirstFailingCheck(fcall))

\* the same for the telegrams with at least five bytes behind the header
C22_DecidesBehindShortBlocks ==
    fcall.rest # "none" => C22_FirstFailingCheckDecides

(***************************************************************************)
(* Claims about the SML parser                                             *)
(***************************************************************************)
\* C21: parse_octet_string on a TL byte of type 0 and length field L that is
\* followed by its L-1 data bytes returns these data bytes and leaves the
\* cursor behind the L-byte element; 05 01 02 03 04 gives [01, 02, 03, 04]
\* with the cursor at the end.
C21_OctetStringOfTypeZero ==
    (/\ fcall.fn = "parse_octet_string"
     /\ fret # NoReturn)
    => LET tl == At(fcall.data, 0)
           L == tl % 16
       IN  (/\ (tl \div 16) % 8 = 0
            /\ L \in 2..14
            /\ Len(fcall.data) >= L)
           => /\ fret.result.ok
              /\ fret.result.val = SmlSome(Slice(fcall.data, 1, L))
              /\ fret.result.pos = L

\* transaction ids of the messages parse_sml_file returned
ReturnedIds == {fret.messages[k].transaction_id : k \in DOMAIN fret.messages}

\* C23: when a message of a frame fails to parse on an unexpected type or
\* length, parse_sml_file gives up that message only and goes on behind it:
\* every well-formed message that follows in the frame is in the SmlFile
\* returned.
C23_MessagesBehindFailureReturned ==
    (fcall.fn = "parse_sml_file" /\ fret # NoReturn) =>
        \A i \in DOMAIN fcall.messages :
            (/\ fcall.messages[i] \in WellFormedKinds
             /\ \E j \in 1..(i - 1) : fcall.messages[j] \notin WellFormedKinds)
            => /\ fret.kind = "Ok"
               /\ TransactionId(i) \in ReturnedIds

\* the well-formed messages in front of the first failure are returned
C23_MessagesBeforeFailureReturned ==
    (fcall.fn = "parse_sml_file" /\ fret # NoReturn) =>
        \A i \in DOMAIN fcall.messages :
            (\A j \in 1..i : fcall.messages[j] \in WellFormedKinds)
            => /\ fret.kind = "Ok"
               /\ TransactionId(i) \in ReturnedIds

\* C30: for every sequence of received bytes parse_sml_message returns Ok or
\* Err and never slices out of range: with start the first 1B 1B 1B 1B and
\* end the first 1B 1B 1B 1A at or behind start + 4, start + 8 <= end holds
\* whenever the content data[start + 8 .. end] is taken.
C30_NeverSlicesOutOfRange ==
    (fcall.fn = "parse_sml_message" /\ fret # NoReturn) =>
        /\ fret.kind \in {"Ok", "Err"}
        /\ (find_sml_start(fcall.data).ok
            /\ find_sml_end(fcall.data, find_sml_start(fcall.data).pos).ok)
           => find_sml_start(fcall.data).pos + 8
                 <= find_sml_end(fcall.data, find_sml_start(fcall.data).pos).pos

\* a frame of one well-formed message is parsed
C30_FrameParsed ==
    (fcall.fn = "parse_sml_message" /\ fret # NoReturn
        /\ \E k \in WellFormedKinds : fcall.data = SmlFrame(<<k>>))
    => fret.kind = "Ok" /\ Len(fret.messages) = 1

(***************************************************************************)
(* Claims about the configuration holder (SpecUpdateConfig)                *)
(***************************************************************************)
\* the base string of the section a variant names
BaseString(variant) ==
    CASE variant = "Httpd" -> "httpd" [] variant = "Mqtt" -> "mqtt"
      [] variant = "Modbus" -> "modbus" [] variant = "Tibber" -> "tibber"
      [] variant = "Oms" -> "oms" [] variant = "Victron" -> "victron"
      [] variant = "Knx" -> "knx"

\* C25: update_config(operation, section) replaces exactly the section the
\* variant names and leaves every other section as it was, sets dirty, and
\* broadcasts exactly one ConfigChange with that operation and the base
\* string of that section; a later get_copy of that base returns the new
\* section.
C25_UpdateReplacesOneSection ==
    (fcall.fn = "update_config" /\ fret # NoReturn) =>
        LET base == BaseString(fcall.new_data.variant)
        IN  /\ fret.holder.config[base] = fcall.new_data.data
            /\ \A s \in ConfigSections \ {base} :
                  fret.holder.config[s] = fcall.holder.config[s]
            /\ fret.holder.dirty
            /\ fret.holder.sent =
                  <<[operation |-> fcall.operation, base |-> base]>>
            /\ (fret.kind = "copied" /\ fret.base = base) =>
                  fret.copy = [kind |-> "Ok", variant |-> fcall.new_data.variant,
                               data |-> fcall.new_data.data]

\* C25 witness: a clean holder's tibber section was replaced by another
\* value and read back
C25_Witness ==
    /\ fcall.fn = "update_config"
    /\ fret.kind = "copied"
    /\ fcall.new_data.variant = "Tibber"
    /\ fret.base = "tibber"
    /\ ~fcall.holder.dirty
    /\ fcall.new_data.data # fcall.holder.config.tibber
    /\ fret.copy.data = fcall.new_data.data

(***************************************************************************)
(* Claims about the hub API (SpecApi)                                      *)
(***************************************************************************)
\* the requests applied one after another in the order given: the section
\* and the responses that result
RECURSIVE AppliedInOrder(_, _, _, _)
AppliedInOrder(hubs, responses, order, k) ==
    IF k > Len(order) THEN [hubs |-> hubs, responses |-> responses]
    ELSE LET r == order[k]
             decision == ApiDecision([fcall[r] EXCEPT !.copy = hubs])
         IN  AppliedInOrder(IF decision.writes THEN decision.hubs ELSE hubs,
                            [responses EXCEPT ![r] = decision.response],
                            order, k + 1)

Orders(n) == {o \in [1..n -> 1..n] : \A i, j \in 1..n : i # j => o[i] # o[j]}

AllAnswered == \A r \in DOMAIN fcall : fcall[r].pc = "done"

\* C29: for every interleaving of concurrent add_modbus_hub and
\* delete_modbus_hub requests the resulting Modbus section is the one that
\* results from applying the requests one after another in some order, with
\* the responses they got: hub names stay pairwise distinct and no hub whose
\* add returned Created is lost to a concurrent writer.
C29_RequestsSerializable ==
    fret.kind = "section" =>
        /\ \A i, j \in DOMAIN config : i # j => config[i] # config[j]
        /\ AllAnswered =>
              \E order \in Orders(Len(fcall)) :
                 LET applied == AppliedInOrder(fret.hubs,
                                               [r \in DOMAIN fcall |-> "none"],
                                               order, 1)
                 IN  /\ applied.hubs = config
                     /\ \A r \in DOMAIN fcall :
                           applied.responses[r] = fcall[r].response

\* a delete of an unknown hub changes nothing and broadcasts no event
C29_UnknownDeleteChangesNothing ==
    [][\A r \in DOMAIN fcall :
          (/\ fcall[r].pc = "copied"
           /\ fcall'[r].pc = "done"
           /\ fcall'[r].response = "NotFound")
          => UNCHANGED <<config, queue>>]_vars

====
